---- MODULE Spec2Model ----
(***************************************************************************)
(* A model of wsss777/LRUCache: the index-linked slot cache (type cache),  *)
(* the sharded two-tier LRU-2 store built on it (type lru2Store) and the   *)
(* byte-budgeted single-tier LRU (type lruCache).                          *)
(*                                                                         *)
(* Time is counted in units of 10ms (1e7 ns), the TTL lru2Store.Set uses.  *)
(* A Go slice index i-1 is the TLA+ sequence index i: c.m[idx-1] in the    *)
(* source is c.m[idx] here, and idx = 0 is the uint16 wrap to 65535, which *)
(* is out of range for every capacity and panics.                          *)
(***************************************************************************)
EXTENDS Integers, Sequences, FiniteSets, TLC

(* ---------------------------- bounds ----------------------------------- *)
\* Largest capacity of the slot cache explored on its own.
MaxCap == 2
\* Largest value the clocks reach.
MaxClock == 2
\* Number of calls made on a store in the depth-bounded specifications.
MaxOps == 4
\* Number of calls in the runs with the write history.
MaxCalls == 7
\* Number of calls that the goroutines of the runs with shard locks make.
MaxLockCalls == 5
\* Number of list elements that the runs with a racing Get allocate.
MaxElems == 3
\* Number of seconds that the package clock is followed for.
MaxSeconds == 3
\* Largest TTL handed to SetWithExpiration.
MaxTTL == 1
\* Largest byte budget of the single-tier cache.
MaxBytes == 4
\* Most goroutines started by Get for one key and not yet run.
MaxPending == 1

Keys == {"a", "b", "c"}
Vals == {1, 2}

(* ---------------------------- slot cache ------------------------------- *)
\* const ( Head = 0; Tail = 1 ): the columns of the sentinel pair dlnk[0]
\* (Head and Tail are operators of Sequences, hence the suffix).
HeadCol == 0
TailCol == 1
\* var clock, p, n = ..., uint16(0), uint16(1): columns of a slot's pair.
p == 0
n == 1

\* type node struct { k; v; expireAt }: the zero node of make([]node, cap).
node(k, v, expireAt) == [k |-> k, v |-> v, expireAt |-> expireAt]
ZeroNode == node("", 0, 0)

\* Create(cap): dlnk has cap+1 zero pairs, m has cap zero nodes, hmap empty.
Create(cap) ==
    [dlnk |-> [i \in 0..cap |-> <<0, 0>>],
     m    |-> [i \in 1..cap |-> ZeroNode],
     hmap |-> <<>>,
     last |-> 0]

\* c.dlnk[i][j], the assignment c.dlnk[i][j] = x, and that assignment
\* under an if.
Lnk(c, i, j) == c.dlnk[i][j + 1]
SetLnk(c, i, j, x) == [c EXCEPT !.dlnk[i][j + 1] = x]
SetLnkIf(cond, c, i, j, x) == IF cond THEN SetLnk(c, i, j, x) ELSE c

\* adjust, "if c.dlnk[0][Head] == idx { c.dlnk[0][Head] = next }".
headWas(c, idx, next) == SetLnkIf(Lnk(c, 0, HeadCol) = idx, c, 0, HeadCol, next)
\* adjust, "if c.dlnk[0][Tail] == idx { c.dlnk[0][Tail] = prev }".
tailWas(c, idx, prev) == SetLnkIf(Lnk(c, 0, TailCol) = idx, c, 0, TailCol, prev)

\* adjust, first half: take idx out of the list and fix the sentinel.
unlink(c, idx, prev, next) ==
    tailWas(headWas(SetLnkIf(next # 0, SetLnkIf(prev # 0, c, prev, n, next),
                             next, p, prev),
                    idx, next),
            idx, prev)

\* "c.dlnk[idx][n] = c.dlnk[0][Head]" and "c.dlnk[idx][p] = c.dlnk[0][Tail]".
nextToHead(c, idx) == SetLnk(c, idx, n, Lnk(c, 0, HeadCol))
prevToTail(c, idx) == SetLnk(c, idx, p, Lnk(c, 0, TailCol))
\* "if c.dlnk[0][Head] != 0 { c.dlnk[c.dlnk[0][Head]][p] = idx }" and the
\* same for the tail.
oldHeadPrev(c, idx) == SetLnkIf(Lnk(c, 0, HeadCol) # 0, c, Lnk(c, 0, HeadCol), p, idx)
oldTailNext(c, idx) == SetLnkIf(Lnk(c, 0, TailCol) # 0, c, Lnk(c, 0, TailCol), n, idx)

\* adjust, second half: link idx in at the head (t = Head) or at the tail.
relink(c, idx, t) ==
    IF t = HeadCol
    THEN SetLnk(oldHeadPrev(nextToHead(SetLnk(c, idx, p, 0), idx), idx), 0, HeadCol, idx)
    ELSE SetLnk(oldTailNext(prevToTail(SetLnk(c, idx, n, 0), idx), idx), 0, TailCol, idx)

\* cache.adjust(idx, f, t); f is not used by the source either.
adjust(c, idx, f, t) ==
    IF idx = 0 THEN c
    ELSE relink(unlink(c, idx, Lnk(c, idx, p), Lnk(c, idx, n)), idx, t)

\* The map operations c.hmap[key] = i and delete(c.hmap, key).
MapSet(h, key, i) == [x \in DOMAIN h \cup {key} |-> IF x = key THEN i ELSE h[x]]
MapDel(h, key) == [x \in DOMAIN h \ {key} |-> h[x]]

\* What put yields: the cache after the call, the return value, the
\* eviction callbacks made (in order) and whether the call panicked.
PutRes(c, ret, cb, panic) == [c |-> c, ret |-> ret, cb |-> cb, panic |-> panic]

\* put, the key is indexed at idx: overwrite in place, move to the head.
putUpdate(c, idx, val, expireAt) ==
    PutRes(adjust([c EXCEPT !.m[idx].v = val, !.m[idx].expireAt = expireAt],
                  idx, TailCol, HeadCol),
           0, <<>>, FALSE)

\* A put into a full cache that leaves the evicted key in the index.
putEvictKeepsKey(c, key, val, expireAt, t) ==
    IF t = 0 THEN PutRes(c, 0, <<>>, TRUE)
    ELSE PutRes(adjust([c EXCEPT !.hmap = MapSet(c.hmap, key, t),
                                 !.m[t] = node(key, val, expireAt)],
                       t, TailCol, HeadCol),
                1,
                IF c.m[t].expireAt > 0 THEN << <<c.m[t].k, c.m[t].v>> >> ELSE <<>>,
                FALSE)

\* put, the cache is full and t = c.dlnk[0][Tail]: tail := &c.m[t-1] panics
\* for t = 0; else the callback for a live tail, the slot is reused and
\* moved to the head.
putEvict(c, key, val, expireAt, t) ==
    IF t = 0 THEN PutRes(c, 0, <<>>, TRUE)
    ELSE PutRes(adjust([c EXCEPT !.hmap = MapSet(MapDel(c.hmap, c.m[t].k), key, t),
                                 !.m[t] = node(key, val, expireAt)],
                       t, TailCol, HeadCol),
                1,
                IF c.m[t].expireAt > 0 THEN << <<c.m[t].k, c.m[t].v>> >> ELSE <<>>,
                FALSE)

\* put, "if len(c.hmap) <= 0 { c.dlnk[0][Tail] = c.last } else
\* { c.dlnk[c.dlnk[0][Head]][p] = c.last }".
linkFirst(c, last) ==
    IF Cardinality(DOMAIN c.hmap) <= 0
    THEN SetLnk(c, 0, TailCol, last)
    ELSE SetLnk(c, Lnk(c, 0, HeadCol), p, last)

\* put, "c.dlnk[c.last] = [2]uint16{0, c.dlnk[0][Head]}".
initLinks(c, last) == [c EXCEPT !.dlnk[last] = <<0, Lnk(c, 0, HeadCol)>>]

\* put, "if c.dlnk[0][Tail] == 0 { c.dlnk[0][Tail] = c.last }".
tailIfNone(c, last) == SetLnkIf(Lnk(c, 0, TailCol) = 0, c, 0, TailCol, last)

\* put, a fresh slot: last = c.last + 1 is claimed and linked at the head.
putFresh(c, key, val, expireAt, last) ==
    PutRes([tailIfNone(
              SetLnk(oldHeadPrev(
                       initLinks([linkFirst([c EXCEPT !.last = last], last)
                                    EXCEPT !.m[last] = node(key, val, expireAt)],
                                 last),
                       last),
                     0, HeadCol, last),
              last)
             EXCEPT !.hmap = MapSet(c.hmap, key, last)],
           1, <<>>, FALSE)

\* cache.put
put(c, key, val, expireAt) ==
    IF key \in DOMAIN c.hmap THEN putUpdate(c, c.hmap[key], val, expireAt)
    ELSE IF c.last = Len(c.m) THEN putEvict(c, key, val, expireAt, Lnk(c, 0, TailCol))
    ELSE putFresh(c, key, val, expireAt, c.last + 1)

\* cache.get: on a hit the slot moves to the head; idx is the slot the
\* returned *node points to; st = 0 is (nil, 0).
get(c, key) ==
    IF key \in DOMAIN c.hmap
    THEN [c |-> adjust(c, c.hmap[key], TailCol, HeadCol), idx |-> c.hmap[key], st |-> 1]
    ELSE [c |-> c, idx |-> 0, st |-> 0]

\* A del that forgets the test c.m[idx-1].expireAt > 0.
delAnySlot(c, key) ==
    IF key \in DOMAIN c.hmap
    THEN [c |-> adjust([c EXCEPT !.m[c.hmap[key]].expireAt = 0], c.hmap[key], HeadCol, TailCol),
          idx |-> c.hmap[key], st |-> 1, e |-> c.m[c.hmap[key]].expireAt]
    ELSE [c |-> c, idx |-> 0, st |-> 0, e |-> 0]

\* cache.del: a live slot gets expireAt = 0 and moves to the tail; idx is
\* the slot the returned *node points to (0 for nil), e the prior expiry.
del(c, key) ==
    IF key \in DOMAIN c.hmap /\ c.m[c.hmap[key]].expireAt > 0
    THEN [c |-> adjust([c EXCEPT !.m[c.hmap[key]].expireAt = 0], c.hmap[key], HeadCol, TailCol),
          idx |-> c.hmap[key], st |-> 1, e |-> c.m[c.hmap[key]].expireAt]
    ELSE [c |-> c, idx |-> 0, st |-> 0, e |-> 0]

\* cache.walk with a walker that always returns true (every caller's does):
\* the nodes visited in order, and whether the loop ends. The loop reads
\* only dlnk and m, which the walkers do not change, so reaching a slot a
\* second time means it never ends.
RECURSIVE walkFrom(_, _, _, _)
walkFrom(c, idx, seen, acc) ==
    IF idx = 0 THEN [visited |-> acc, returns |-> TRUE]
    ELSE IF idx \in seen THEN [visited |-> acc, returns |-> FALSE]
    ELSE walkFrom(c, Lnk(c, idx, n), seen \cup {idx},
                  IF c.m[idx].expireAt > 0 THEN Append(acc, c.m[idx]) ELSE acc)

walk(c) == walkFrom(c, Lnk(c, 0, HeadCol), {}, <<>>)

\* The key has a live entry in c: it is indexed and its slot is no tombstone.
Live(c, key) == key \in DOMAIN c.hmap /\ c.m[c.hmap[key]].expireAt > 0
LiveKeys(c) == {k \in DOMAIN c.hmap : c.m[c.hmap[k]].expireAt > 0}
NodeOf(c, key) == c.m[c.hmap[key]]

(* ---------------------------- shard router ----------------------------- *)
\* Bitwise and / or of two naturals (Go's & and | on unsigned operands).
RECURSIVE BitAnd(_, _)
BitAnd(x, y) ==
    IF x = 0 \/ y = 0 THEN 0
    ELSE 2 * BitAnd(x \div 2, y \div 2) + (IF x % 2 = 1 /\ y % 2 = 1 THEN 1 ELSE 0)

RECURSIVE BitOr(_, _)
BitOr(x, y) ==
    IF x = 0 THEN y
    ELSE IF y = 0 THEN x
    ELSE 2 * BitOr(x \div 2, y \div 2) + (IF x % 2 = 1 \/ y % 2 = 1 THEN 1 ELSE 0)

\* The bytes of the keys used (key[i] in hashBKRD).
KeyBytes(key) ==
    CASE key = "a" -> <<97>>
      [] key = "b" -> <<98>>
      [] key = "c" -> <<99>>
      [] key = "d" -> <<100>>

\* An int32 is kept as its two's complement bit pattern in two 16-bit
\* halves <<hi, lo>> (it is negative when hi >= 32768), since hash*131
\* exceeds the integers TLC computes with.
\* hash*131 + int32(b), wrapped to 32 bits.
MulAdd32(hash, b) ==
    <<(hash[1] * 131 + ((hash[2] * 131 + b) \div 65536)) % 65536,
      (hash[2] * 131 + b) % 65536>>

\* hashBKRD: hash = hash*131 + int32(key[i]) over the bytes, in int32.
RECURSIVE hashFrom(_, _, _)
hashFrom(bytes, i, hash) ==
    IF i > Len(bytes) THEN hash
    ELSE hashFrom(bytes, i + 1, MulAdd32(hash, bytes[i]))

hashBKRD(key) == hashFrom(KeyBytes(key), 1, <<0, 0>>)

\* "cap |= cap >> k" on a uint16, for a shift by log2(d).
orShift(cap, d) == BitOr(cap, cap \div d)

\* maskOfNextPowOf2 on a uint16.
maskOfNextPowOf2(cap) ==
    IF cap > 0 /\ BitAnd(cap, cap - 1) = 0 THEN cap - 1
    ELSE orShift(orShift(orShift(orShift(cap, 2), 4), 16), 256)

\* hashBKRD(key) & s.mask: Go's & on int32 is the and of the two's
\* complement bit patterns, and int32(mask) of a uint16 mask has a zero
\* high half.
ShardOf(key, msk) == BitAnd(hashBKRD(key)[2], msk)

(* ---------------------------- LRU-2 store ------------------------------ *)
\* One client makes the calls, one after another. The store's cleanup
\* goroutine makes no pass unless a specification includes its steps (LRU-2
\* cleanup, shard locks): CleanupInterval (a minute by default) is longer
\* than the MaxClock time units that the other runs last.
VARIABLES
    caches,     \* s.caches: shard -> <<tier 1, tier 2>> (s.caches[i][0], [i][1])
    mask,       \* s.mask
    clock,      \* the package clock that Now() loads
    ticking,    \* s.cleanupTick has not been stopped
    op,         \* the last call: its name, key and what it returned
    cbs,        \* the s.onEvicted calls the last call made, in order
    status,     \* "ok", or "panic" / "hang" once a call panicked / never returned
    nops        \* the calls made so far (counted in SpecWide only)

varsL2 == <<caches, mask, clock, ticking, op, cbs, status, nops>>

\* lru2Store.Set passes this expiration: 1e7 ns, one time unit.
SetTTL == 1

\* The Options a store is built from: one shard with one slot per tier
\* (explored without a bound on the number of calls) and the wider stores
\* (explored for MaxOps calls).
Opts(bc, c1, c2) == [BucketCount |-> bc, CapPerBucket |-> c1, Level2Cap |-> c2]
SmallOptions == {Opts(1, 1, 1)}
WideOptions == {Opts(1, 2, 2), Opts(2, 1, 1)}
\* The expirations handed to SetWithExpiration (none positive: never expires).
TTLs == (-1)..MaxTTL

\* "mask+1" of make([]sync.Mutex, mask+1) and make([][2]*cache, mask+1), a
\* uint16 like mask.
shardCount(msk) == (msk + 1) % 65536

\* newLRU2Cache after the defaults: the mask, and two caches per shard.
newStore(msk, c1, c2) ==
    [caches |-> [i \in 0..(shardCount(msk) - 1) |-> <<Create(c1), Create(c2)>>],
     mask |-> msk]

\* newLRU2Cache: a zero BucketCount, CapPerBucket, Level2Cap is 16, 1024, 1024.
newLRU2Cache(opts) ==
    newStore(maskOfNextPowOf2(IF opts.BucketCount = 0 THEN 16 ELSE opts.BucketCount),
             IF opts.CapPerBucket = 0 THEN 1024 ELSE opts.CapPerBucket,
             IF opts.Level2Cap = 0 THEN 1024 ELSE opts.Level2Cap)

\* s.caches[idx][0] and s.caches[idx][1] of a shard.
Tier1(pair) == pair[1]
Tier2(pair) == pair[2]

\* The callback of a delete that passes the tier-2 value first.
deleteCallbackTier2First(d1, d2, key) ==
    IF ~(d1.st > 0 \/ d2.st > 0) THEN <<>>
    ELSE IF d2.idx # 0 /\ d2.c.m[d2.idx].v # 0 THEN << <<key, d2.c.m[d2.idx].v>> >>
    ELSE IF d1.idx # 0 /\ d1.c.m[d1.idx].v # 0 THEN << <<key, d1.c.m[d1.idx].v>> >>
    ELSE <<>>

\* The callback of delete: d1, d2 are what del returned for tier 1 and 2.
deleteCallback(d1, d2, key) ==
    IF ~(d1.st > 0 \/ d2.st > 0) THEN <<>>
    ELSE IF d1.idx # 0 /\ d1.c.m[d1.idx].v # 0 THEN << <<key, d1.c.m[d1.idx].v>> >>
    ELSE IF d2.idx # 0 /\ d2.c.m[d2.idx].v # 0 THEN << <<key, d2.c.m[d2.idx].v>> >>
    ELSE <<>>

deleteResult(d1, d2, key) ==
    [pair |-> <<d1.c, d2.c>>, deleted |-> d1.st > 0 \/ d2.st > 0,
     cb |-> deleteCallback(d1, d2, key)]

\* lru2Store.delete on one shard: del in both tiers, one callback with the
\* tier-1 value if del returned a node there, else with the tier-2 value.
delete(pair, key) == deleteResult(del(Tier1(pair), key), del(Tier2(pair), key), key)

\* _get: (nil, 0) when the node that cache.get returned (g) is a tombstone
\* or has expired at time now.
lru2getResult(c1, g, now) ==
    IF g.st > 0 /\ ~(g.c.m[g.idx].expireAt <= 0 \/ now >= g.c.m[g.idx].expireAt)
    THEN [pair |-> <<c1, g.c>>, idx |-> g.idx, st |-> g.st]
    ELSE [pair |-> <<c1, g.c>>, idx |-> 0, st |-> 0]

\* lru2Store._get at level 1 (tier 2).
lru2get(pair, key, now) == lru2getResult(Tier1(pair), get(Tier2(pair), key), now)

\* What a call returns.
Ret(name, key, v, found) == [op |-> name, key |-> key, v |-> v, found |-> found]

\* What Get yields on the key's shard: the shard after the call, the value
\* and found flag returned, the callbacks, and whether it panicked.
GetRes(pair, v, found, cb, panic) ==
    [pair |-> pair, v |-> v, found |-> found, cb |-> cb, panic |-> panic]

\* Get, "s.delete(key, idx); return nil, false" (x is what delete yields).
getExpired(x) == GetRes(x.pair, 0, FALSE, x.cb, FALSE)

\* Get, the promotion: r is what put on tier 2 yields, v is n1.v.
getPromote(c1, r, v) ==
    GetRes(<<c1, r.c>>, IF r.panic THEN 0 ELSE v, ~r.panic, r.cb, r.panic)

\* Get, the tier-2 branch: g is what _get yields.
getTier2(g, key, now) ==
    IF g.st > 0 /\ g.idx # 0
    THEN IF Tier2(g.pair).m[g.idx].expireAt > 0 /\ now >= Tier2(g.pair).m[g.idx].expireAt
         THEN getExpired(delete(g.pair, key))
         ELSE GetRes(g.pair, Tier2(g.pair).m[g.idx].v, TRUE, <<>>, FALSE)
    ELSE GetRes(g.pair, 0, FALSE, <<>>, FALSE)

\* Get after "n1, status1, expireAt := s.caches[idx][0].del(key)" (d1).
getAfterDel(d1, c2, key, now) ==
    IF d1.st > 0
    THEN IF d1.e > 0 /\ now >= d1.e
         THEN getExpired(delete(<<d1.c, c2>>, key))
         ELSE getPromote(d1.c, put(c2, key, d1.c.m[d1.idx].v, d1.e), d1.c.m[d1.idx].v)
    ELSE getTier2(lru2get(<<d1.c, c2>>, key, now), key, now)

\* lru2Store.Get on the key's shard at time now.
GetShard(pair, key, now) == getAfterDel(del(Tier1(pair), key), Tier2(pair), key, now)

InitL2(options) ==
    /\ \E opts \in options :
         caches = newLRU2Cache(opts).caches /\ mask = newLRU2Cache(opts).mask
    /\ nops = 0
    /\ clock = 1
    /\ ticking = TRUE
    /\ op = Ret("new", "", 0, FALSE)
    /\ cbs = <<>>
    /\ status = "ok"

\* The state after a Get on shard idx that yielded r.
GetDone(idx, key, r) ==
    /\ caches' = [caches EXCEPT ![idx] = r.pair]
    /\ cbs' = r.cb
    /\ op' = Ret("Get", key, r.v, r.found)
    /\ status' = IF r.panic THEN "panic" ELSE "ok"

\* lru2Store.Get
Get(key) ==
    /\ status = "ok"
    /\ GetDone(ShardOf(key, mask), key, GetShard(caches[ShardOf(key, mask)], key, clock))
    /\ UNCHANGED <<mask, clock, ticking>>

\* A Set that also deletes the key's entry in tier 2.
SetDoneBothTiers(idx, key, value, r) ==
    /\ caches' = [caches EXCEPT ![idx] = <<r.c, del(Tier2(caches[idx]), key).c>>]
    /\ cbs' = r.cb
    /\ op' = Ret("Set", key, value, TRUE)
    /\ status' = IF r.panic THEN "panic" ELSE "ok"

\* The state after a put on tier 1 of shard idx that yielded r.
SetDone(idx, key, value, r) ==
    /\ caches' = [caches EXCEPT ![idx] = <<r.c, Tier2(caches[idx])>>]
    /\ cbs' = r.cb
    /\ op' = Ret("Set", key, value, TRUE)
    /\ status' = IF r.panic THEN "panic" ELSE "ok"

\* lru2Store.SetWithExpiration
SetWithExpiration(key, value, expiration) ==
    /\ status = "ok"
    /\ SetDone(ShardOf(key, mask), key, value,
               put(Tier1(caches[ShardOf(key, mask)]), key, value,
                   IF expiration > 0 THEN clock + expiration ELSE 0))
    /\ UNCHANGED <<mask, clock, ticking>>

\* lru2Store.Set
Set(key, value) == SetWithExpiration(key, value, SetTTL)

\* The state after a delete on shard idx that yielded r.
DeleteDone(idx, key, r) ==
    /\ caches' = [caches EXCEPT ![idx] = r.pair]
    /\ cbs' = r.cb
    /\ op' = Ret("Delete", key, 0, r.deleted)

\* lru2Store.Delete
Delete(key) ==
    /\ status = "ok"
    /\ DeleteDone(ShardOf(key, mask), key, delete(caches[ShardOf(key, mask)], key))
    /\ UNCHANGED <<mask, clock, ticking, status>>

\* The key of each node of a walk, in order.
KeysOf(nodes) == [i \in 1..Len(nodes) |-> nodes[i].k]

\* The walker of the tier-2 walk in Clear: append the keys not yet in keys.
RECURSIVE appendNew(_, _, _)
appendNew(keys, more, i) ==
    IF i > Len(more) THEN keys
    ELSE appendNew(IF \E j \in 1..Len(keys) : keys[j] = more[i]
                   THEN keys ELSE Append(keys, more[i]),
                   more, i + 1)

\* The first loop of Clear over shards i..msk: the keys collected, and
\* whether every walk returned (w1, w2 are the walks of shard i).
RECURSIVE clearCollect(_, _, _, _)
clearShard(cs, msk, i, keys, w1, w2) ==
    IF ~w1.returns \/ ~w2.returns THEN [keys |-> keys, returns |-> FALSE]
    ELSE clearCollect(cs, msk, i + 1,
                      appendNew(keys \o KeysOf(w1.visited), KeysOf(w2.visited), 1))

clearCollect(cs, msk, i, keys) ==
    IF i > msk THEN [keys |-> keys, returns |-> TRUE]
    ELSE clearShard(cs, msk, i, keys, walk(Tier1(cs[i])), walk(Tier2(cs[i])))

\* The second loop of Clear: s.Delete(key) for keys[i..], one after another
\* (r is what delete yields for keys[i]).
RECURSIVE clearDelete(_, _, _, _, _)
clearDeleteOne(cs, msk, keys, i, cb, r) ==
    clearDelete([cs EXCEPT ![ShardOf(keys[i], msk)] = r.pair], msk, keys, i + 1, cb \o r.cb)

clearDelete(cs, msk, keys, i, cb) ==
    IF i > Len(keys) THEN [caches |-> cs, cb |-> cb]
    ELSE clearDeleteOne(cs, msk, keys, i, cb, delete(cs[ShardOf(keys[i], msk)], keys[i]))

\* The state after the second loop of Clear yielded r.
ClearDone(r) == caches' = r.caches /\ cbs' = r.cb /\ status' = "ok"

\* Clear after its first loop yielded k: a walk that never ends keeps
\* Clear from returning.
ClearCollected(k) ==
    IF k.returns
    THEN ClearDone(clearDelete(caches, mask, k.keys, 1, <<>>))
    ELSE caches' = caches /\ cbs' = <<>> /\ status' = "hang"

\* lru2Store.Clear
Clear ==
    /\ status = "ok"
    /\ ClearCollected(clearCollect(caches, mask, 0, <<>>))
    /\ op' = Ret("Clear", "", 0, FALSE)
    /\ UNCHANGED <<mask, clock, ticking>>

\* The loop of lru2Store.Len over shards i..msk (w1, w2 as in Clear).
RECURSIVE lenFrom(_, _, _, _)
lenShard(cs, msk, i, count, w1, w2) ==
    IF ~w1.returns \/ ~w2.returns THEN [count |-> count, returns |-> FALSE]
    ELSE lenFrom(cs, msk, i + 1, count + Len(w1.visited) + Len(w2.visited))

lenFrom(cs, msk, i, count) ==
    IF i > msk THEN [count |-> count, returns |-> TRUE]
    ELSE lenShard(cs, msk, i, count, walk(Tier1(cs[i])), walk(Tier2(cs[i])))

\* The state after the loop of Len yielded r.
LenDone(r) ==
    /\ op' = Ret("Len", "", r.count, r.returns)
    /\ status' = IF r.returns THEN "ok" ELSE "hang"

\* lru2Store.Len
LenCall ==
    /\ status = "ok"
    /\ LenDone(lenFrom(caches, mask, 0, 0))
    /\ cbs' = <<>>
    /\ UNCHANGED <<caches, mask, clock, ticking>>

\* lru2Store.Close: s.cleanupTick.Stop()
Close ==
    /\ status = "ok"
    /\ ticking' = FALSE
    /\ op' = Ret("Close", "", 0, FALSE)
    /\ cbs' = <<>>
    /\ UNCHANGED <<caches, mask, clock, status>>

\* The clock goroutine of init() moves the package clock forward.
Tick ==
    /\ status = "ok"
    /\ clock < MaxClock
    /\ clock' = clock + 1
    /\ op' = Ret("Tick", "", 0, FALSE)
    /\ cbs' = <<>>
    /\ UNCHANGED <<caches, mask, ticking, status>>

(* ---------------------------- LRU-2 cleanup ---------------------------- *)
\* The cleanup goroutine of the LRU-2 store (cleanupLoop), in the runs where
\* s.cleanupTick fires: tick is the tick buffered in s.cleanupTick.C, shard
\* the shard that the pass under way handles next (-1: no pass under way),
\* T the currentTime that the pass read before its first shard.
VARIABLE sweep

varsSweep == <<sweep>>

NoSweep == [tick |-> FALSE, shard |-> -1, T |-> 0]

\* The goroutine waits on the channel and the channel is empty.
IdleSweep == sweep = NoSweep

\* The walker of cleanupLoop: the keys of the nodes with
\* expireAt > 0 && currentTime >= expireAt, in the order walked.
RECURSIVE expiredKeys(_, _, _)
expiredKeys(nodes, T, i) ==
    IF i > Len(nodes) THEN <<>>
    ELSE IF nodes[i].expireAt > 0 /\ T >= nodes[i].expireAt
         THEN <<nodes[i].k>> \o expiredKeys(nodes, T, i + 1)
         ELSE expiredKeys(nodes, T, i + 1)

\* "for _, key := range expiredKeys { s.delete(key, i) }" from keys[i] on
\* (r is what delete yields for keys[i]).
RECURSIVE sweepDelete(_, _, _, _)
sweepDeleteOne(keys, i, cb, r) == sweepDelete(r.pair, keys, i + 1, cb \o r.cb)

sweepDelete(pair, keys, i, cb) ==
    IF i > Len(keys) THEN [pair |-> pair, cb |-> cb, returns |-> TRUE]
    ELSE sweepDeleteOne(keys, i, cb, delete(pair, keys[i]))

\* A pass that collects the expired keys of tier 1 only.
sweepShardTier1Only(pair, T, w1, w2) ==
    IF ~w1.returns \/ ~w2.returns THEN [pair |-> pair, cb |-> <<>>, returns |-> FALSE]
    ELSE sweepDelete(pair, expiredKeys(w1.visited, T, 1), 1, <<>>)

\* The pass over one shard under its lock (w1, w2 are the two walks): a walk
\* that never ends keeps the pass from finishing.
sweepShard(pair, T, w1, w2) ==
    IF ~w1.returns \/ ~w2.returns THEN [pair |-> pair, cb |-> <<>>, returns |-> FALSE]
    ELSE sweepDelete(pair,
                     appendNew(expiredKeys(w1.visited, T, 1),
                               expiredKeys(w2.visited, T, 1), 1),
                     1, <<>>)

\* The state after the pass over shard i yielded r.
SweepDone(i, r) ==
    /\ caches' = [caches EXCEPT ![i] = r.pair]
    /\ cbs' = r.cb
    /\ status' = IF r.returns THEN "ok" ELSE "hang"
    /\ sweep' = IF ~r.returns THEN sweep
                ELSE [sweep EXCEPT !.shard = IF i = mask THEN -1 ELSE i + 1]

\* s.cleanupTick sends a tick (the channel buffers one).
CleanupTick ==
    /\ status = "ok" /\ ticking /\ ~sweep.tick
    /\ sweep' = [sweep EXCEPT !.tick = TRUE]
    /\ op' = Ret("cleanupTick", "", 0, FALSE)
    /\ cbs' = <<>>
    /\ UNCHANGED <<caches, mask, clock, ticking, status>>

\* lru2Store.Close in the runs with the cleanup goroutine: after Stop no
\* tick that the ticker had ready is received (go 1.25 in go.mod).
SweepClose == Close /\ sweep' = [sweep EXCEPT !.tick = FALSE]

\* cleanupLoop receives the tick: "currentTime := Now()".
SweepStart ==
    /\ status = "ok" /\ sweep.tick /\ sweep.shard = -1
    /\ sweep' = [tick |-> FALSE, shard |-> 0, T |-> clock]
    /\ op' = Ret("cleanupLoop", "", 0, FALSE)
    /\ cbs' = <<>>
    /\ UNCHANGED <<caches, mask, clock, ticking, status>>

\* cleanupLoop, the body of "for i := range s.caches" for one shard.
SweepShard ==
    /\ status = "ok" /\ sweep.shard >= 0
    /\ SweepDone(sweep.shard,
                 sweepShard(caches[sweep.shard], sweep.T,
                            walk(Tier1(caches[sweep.shard])),
                            walk(Tier2(caches[sweep.shard]))))
    /\ op' = Ret("cleanup", "", sweep.shard, FALSE)
    /\ UNCHANGED <<mask, clock, ticking>>

(* ---------------------------- shard locks ------------------------------ *)
\* The LRU-2 store under several goroutines: two clients and cleanupLoop.
\* locks is s.locks (the goroutine that holds each shard's mutex, or
\* NoHolder); pcs is where each goroutine stands: idle, waiting in
\* s.locks[shard].Lock(), locked (past the code between Lock and Unlock),
\* or hung (inside a walk that never ends, the mutex still held). An
\* unrecovered panic ends the whole process (status "panic").
VARIABLES locks, pcs

varsLocks == <<locks, pcs>>

Clients == {"c1", "c2"}
Sweeper == "cleanupLoop"
Threads == Clients \cup {Sweeper}
NoHolder == ""

\* call: the method under way; key, ttl: its arguments; keys: the keys
\* that Clear collected and has not deleted yet; T: currentTime of the pass.
Pc(at, call, key, ttl, shard, keys, T) ==
    [at |-> at, call |-> call, key |-> key, ttl |-> ttl, shard |-> shard,
     keys |-> keys, T |-> T]
IdlePc == Pc("idle", "", "", 0, 0, <<>>, 0)

\* No goroutine is inside the store (and none is modelled in that run).
IdleLocks == locks = [i \in {0} |-> NoHolder] /\ pcs = [t \in {Sweeper} |-> IdlePc]

InitLocks ==
    /\ locks = [i \in 0..mask |-> NoHolder]
    /\ pcs = [t \in Threads |-> IdlePc]

\* The expiration that the clients pass to SetWithExpiration (as Set does).
LockTTLs == {SetTTL}

\* A client calls Get, SetWithExpiration (Set passes SetTTL) or Delete and
\* reaches "s.locks[idx].Lock()" with idx := hashBKRD(key) & s.mask.
CallKey(t, name, key, ttl) ==
    /\ status = "ok" /\ pcs[t].at = "idle"
    /\ pcs' = [pcs EXCEPT ![t] = Pc("waiting", name, key, ttl, ShardOf(key, mask), <<>>, 0)]
    /\ UNCHANGED <<locks, caches, mask, clock, ticking, op, cbs, status>>

\* A client calls Len or Clear and reaches the Lock of shard 0.
CallAll(t, name) ==
    /\ status = "ok" /\ pcs[t].at = "idle"
    /\ pcs' = [pcs EXCEPT ![t] = Pc("waiting", name, "", 0, 0, <<>>, 0)]
    /\ UNCHANGED <<locks, caches, mask, clock, ticking, op, cbs, status>>

\* cleanupLoop receives a tick, reads currentTime and reaches the Lock of
\* shard 0.
CallSweep ==
    /\ status = "ok" /\ ticking /\ pcs[Sweeper].at = "idle"
    /\ pcs' = [pcs EXCEPT ![Sweeper] = Pc("waiting", "cleanup", "", 0, 0, <<>>, clock)]
    /\ UNCHANGED <<locks, caches, mask, clock, ticking, op, cbs, status>>

\* Lock() returns to t, which waits for the mutex of its shard.
Acquire(t, name) ==
    /\ status = "ok" /\ pcs[t].at = "waiting" /\ pcs[t].call = name
    /\ locks[pcs[t].shard] = NoHolder
    /\ locks' = [locks EXCEPT ![pcs[t].shard] = t]

\* t stands before its Unlock, or never gets there.
Reach(t, returns) == pcs' = [pcs EXCEPT ![t].at = IF returns THEN "locked" ELSE "hung"]

\* Get between Lock and the deferred Unlock.
EnterGet(t) ==
    /\ Acquire(t, "Get")
    /\ GetDone(pcs[t].shard, pcs[t].key,
               GetShard(caches[pcs[t].shard], pcs[t].key, clock))
    /\ Reach(t, TRUE)
    /\ UNCHANGED <<mask, clock, ticking>>

\* SetWithExpiration between Lock and the deferred Unlock.
EnterSet(t) ==
    /\ Acquire(t, "Set")
    /\ SetDone(pcs[t].shard, pcs[t].key, 1,
               put(Tier1(caches[pcs[t].shard]), pcs[t].key, 1,
                   IF pcs[t].ttl > 0 THEN clock + pcs[t].ttl ELSE 0))
    /\ Reach(t, TRUE)
    /\ UNCHANGED <<mask, clock, ticking>>

\* Delete between Lock and the deferred Unlock, called by a client or by
\* the second loop of Clear.
EnterDelete(t) ==
    /\ Acquire(t, "Delete")
    /\ DeleteDone(pcs[t].shard, pcs[t].key, delete(caches[pcs[t].shard], pcs[t].key))
    /\ Reach(t, TRUE)
    /\ UNCHANGED <<mask, clock, ticking, status>>

\* Len, the two walks of one shard.
EnterLen(t) ==
    /\ Acquire(t, "Len")
    /\ Reach(t, walk(Tier1(caches[pcs[t].shard])).returns
                /\ walk(Tier2(caches[pcs[t].shard])).returns)
    /\ op' = Ret("Len", "", 0, FALSE)
    /\ UNCHANGED <<caches, mask, clock, ticking, cbs, status>>

\* Clear, the two walks of one shard (w1, w2) in its first loop.
clearWalks(t, w1, w2) ==
    pcs' = [pcs EXCEPT ![t].at = IF w1.returns /\ w2.returns THEN "locked" ELSE "hung",
                       ![t].keys = IF w1.returns /\ w2.returns
                                   THEN appendNew(@ \o KeysOf(w1.visited),
                                                  KeysOf(w2.visited), 1)
                                   ELSE @]

EnterClear(t) ==
    /\ Acquire(t, "Clear")
    /\ clearWalks(t, walk(Tier1(caches[pcs[t].shard])), walk(Tier2(caches[pcs[t].shard])))
    /\ op' = Ret("Clear", "", 0, FALSE)
    /\ UNCHANGED <<caches, mask, clock, ticking, cbs, status>>

\* cleanupLoop, the pass over one shard (r is what it yields).
sweepLocked(i, r) ==
    /\ caches' = [caches EXCEPT ![i] = r.pair]
    /\ cbs' = r.cb
    /\ Reach(Sweeper, r.returns)

EnterSweep ==
    /\ Acquire(Sweeper, "cleanup")
    /\ sweepLocked(pcs[Sweeper].shard,
                   sweepShard(caches[pcs[Sweeper].shard], pcs[Sweeper].T,
                              walk(Tier1(caches[pcs[Sweeper].shard])),
                              walk(Tier2(caches[pcs[Sweeper].shard]))))
    /\ op' = Ret("cleanup", "", pcs[Sweeper].shard, FALSE)
    /\ UNCHANGED <<mask, clock, ticking, status>>

\* Where t goes after the Unlock: Get, Set and Delete return; the loops of
\* Len, Clear and cleanupLoop go on to the Lock of the next shard; Clear
\* then calls Delete for each key collected, and a Delete returns into it.
nextDelete(pc) ==
    IF pc.keys = <<>> THEN IdlePc
    ELSE Pc("waiting", "Delete", Head(pc.keys), 0, ShardOf(Head(pc.keys), mask),
            Tail(pc.keys), 0)

afterUnlock(pc) ==
    IF pc.call \in {"Len", "Clear", "cleanup"} /\ pc.shard < mask
    THEN [pc EXCEPT !.at = "waiting", !.shard = pc.shard + 1]
    ELSE IF pc.call \in {"Clear", "Delete"} THEN nextDelete(pc)
    ELSE IdlePc

\* s.locks[i].Unlock()
Unlock(t) ==
    /\ status = "ok" /\ pcs[t].at = "locked"
    /\ locks' = [locks EXCEPT ![pcs[t].shard] = NoHolder]
    /\ pcs' = [pcs EXCEPT ![t] = afterUnlock(pcs[t])]
    /\ UNCHANGED <<caches, mask, clock, ticking, op, cbs, status>>

(* ---------------------------- one slot cache --------------------------- *)
VARIABLES
    sc,         \* a cache built by Create(cap)
    scPuts,     \* while scOnlyPuts: the <<key, val>> put so far, in order
    scEvicted,  \* while scOnlyPuts: the onEvicted calls made so far, in order
    scOnlyPuts, \* every call so far was a put of another key with expireAt > 0
    scStatus    \* "ok", or "panic" once a call panicked

varsCache == <<sc, scPuts, scEvicted, scOnlyPuts, scStatus>>

CacheKeys == {"a", "b", "c", "d"}
CacheCaps == 1..MaxCap
\* The expireAt values put is called with: 0 (none) and a time.
CacheExpiries == {0, 1}

InitCache ==
    /\ \E cap \in CacheCaps : sc = Create(cap)
    /\ scPuts = <<>>
    /\ scEvicted = <<>>
    /\ scOnlyPuts = TRUE
    /\ scStatus = "ok"

\* A cache that is not used (in the specifications of the stores).
IdleCache ==
    /\ sc = Create(1)
    /\ scPuts = <<>>
    /\ scEvicted = <<>>
    /\ scOnlyPuts = TRUE
    /\ scStatus = "ok"

\* The state after a put that yielded r; fresh says whether the history is
\* still one of puts of new keys with expireAt > 0.
CachePutDone(key, val, r, fresh) ==
    /\ sc' = r.c
    /\ scStatus' = IF r.panic THEN "panic" ELSE "ok"
    /\ scOnlyPuts' = fresh
    /\ scPuts' = IF fresh THEN Append(scPuts, <<key, val>>) ELSE <<>>
    /\ scEvicted' = IF fresh THEN scEvicted \o r.cb ELSE <<>>

\* c.put(key, val, expireAt, onEvicted) with a callback that records.
CachePut(key, val, expireAt) ==
    /\ scStatus = "ok"
    /\ CachePutDone(key, val, put(sc, key, val, expireAt),
                    scOnlyPuts /\ expireAt > 0
                      /\ \A i \in 1..Len(scPuts) : scPuts[i][1] # key)

\* c.get(key)
CacheGet(key) ==
    /\ scStatus = "ok"
    /\ sc' = get(sc, key).c
    /\ scOnlyPuts' = FALSE /\ scPuts' = <<>> /\ scEvicted' = <<>>
    /\ UNCHANGED scStatus

\* c.del(key)
CacheDel(key) ==
    /\ scStatus = "ok"
    /\ sc' = del(sc, key).c
    /\ scOnlyPuts' = FALSE /\ scPuts' = <<>> /\ scEvicted' = <<>>
    /\ UNCHANGED scStatus

(* ---------------------------- promotion history ------------------------ *)
\* History of the LRU-2 store for the promotion claims: the key that a
\* hitting Get returned last, with the value returned and the expiry it had,
\* as long as every call since was a Set of another key or a Get of the key
\* itself (key "" : there is none).
VARIABLE hot

NoneHot == [key |-> "", v |-> 0, e |-> 0]

\* The expiry of key's entry in the tier-2 cache c2 (0 when it has none).
ExpiryIn(c2, key) == IF key \in DOMAIN c2.hmap THEN c2.m[c2.hmap[key]].expireAt ELSE 0

HotUpdate ==
    hot' = IF op'.op = "Get" /\ op'.found
           THEN IF op'.key = hot.key THEN hot
                ELSE [key |-> op'.key, v |-> op'.v,
                      e |-> ExpiryIn(Tier2(caches'[ShardOf(op'.key, mask)]), op'.key)]
           ELSE IF op'.op = "Tick" THEN hot
           ELSE IF op'.op = "Set" /\ op'.key # hot.key THEN hot
           ELSE NoneHot

(* ---------------------------- write history ---------------------------- *)
\* History of the LRU-2 store for the claim on superseded values: the value
\* that the last Set or SetWithExpiration of each key wrote (0: none yet).
VARIABLE latest

NoLatest == [key \in Keys |-> 0]

LatestUpdate ==
    latest' = IF op'.op = "Set" THEN [latest EXCEPT ![op'.key] = op'.v] ELSE latest

varsHistory == <<hot, latest>>

\* The histories while a specification does not keep them.
IdleHistory == hot = NoneHot /\ latest = NoLatest

(* ---------------------------- single-tier LRU --------------------------- *)
\* lruCache of src/store/lru.go. list holds the entries [key, value], front
\* first; items is the key set of the map to the list's elements; expires
\* maps a key to its expiry time; wall is time.Now(). A Value is the number
\* its Len() returns, 0 stands for nil. One client goroutine makes the
\* calls; the cleanup goroutine and the goroutines started by "go
\* c.Delete(key)" run between its steps.
VARIABLES list, items, expires, maxBytes, usedBytes, wall, cleanupTicker,
          tickC, closeCh, cleaning, deleting, getting, lruOp, lruCbs, lruStatus

varsLRU == <<list, items, expires, maxBytes, usedBytes, wall, cleanupTicker,
             tickC, closeCh, cleaning, deleting, getting, lruOp, lruCbs, lruStatus>>

\* The budgets a cache is made with or set to (0: no budget).
LruBudgets == {0, MaxBytes - 1, MaxBytes}

\* The keys of the calls on the single-tier cache.
LruKeys == {"a", "b"}

\* The values handed to Set, nil among them.
LruVals == {0} \cup Vals

\* No Get of the client is between its read and its move-to-front.
NoGet == [key |-> "", value |-> 0]

\* len(key) + value.Len() of an entry.
entryBytes(e) == Len(KeyBytes(e.key)) + e.value

\* The fields that the calls change under the lock, and the callbacks made.
LruState(l, it, ex, used, cb) ==
    [list |-> l, items |-> it, expires |-> ex, usedBytes |-> used, cbs |-> cb]

\* container/list on a list whose elements are told apart by their key.
IndexOf(l, key) == CHOOSE i \in 1..Len(l) : l[i].key = key
Remove(l, key) == SelectSeq(l, LAMBDA e : e.key # key)
MoveToFront(l, key) == <<l[IndexOf(l, key)]>> \o Remove(l, key)
PushFront(l, e) == <<e>> \o l

\* removeElement of the element of key.
removeElement(c, key) ==
    LruState(Remove(c.list, key), c.items \ {key}, MapDel(c.expires, key),
             c.usedBytes - entryBytes(c.list[IndexOf(c.list, key)]),
             Append(c.cbs, <<key, c.list[IndexOf(c.list, key)].value>>))

\* time.Now().After(expTime) for the key's entry of the expiry map.
hasExpired(ex, key, t) == key \in DOMAIN ex /\ t > ex[key]

\* The orders in which a range over a map may visit the keys of S.
Orders(S) ==
    {s \in [1..Cardinality(S) -> S] : \A i, j \in DOMAIN s : i # j => s[i] # s[j]}

\* evict, first loop: the range over c.expires visits the keys of order
\* from position i on, and removes the expired ones that items holds.
RECURSIVE evictExpired(_, _, _, _)
evictExpired(c, order, i, t) ==
    IF i > Len(order) THEN c
    ELSE IF hasExpired(c.expires, order[i], t) /\ order[i] \in c.items
         THEN evictExpired(removeElement(c, order[i]), order, i + 1, t)
         ELSE evictExpired(c, order, i + 1, t)

\* evict, second loop: while over budget, Back() is tested and Front() removed.
RECURSIVE evictBudget(_, _)
evictBudget(c, max) ==
    IF max > 0 /\ c.usedBytes > max /\ Len(c.list) > 0
    THEN evictBudget(removeElement(c, c.list[1].key), max)
    ELSE c

evict(c, order, t, max) == evictBudget(evictExpired(c, order, 1, t), max)

\* The cache's fields before a call, no callback made yet.
LruNow == LruState(list, items, expires, usedBytes, <<>>)

\* The fields after a call.
LruStore(c) ==
    /\ list' = c.list
    /\ items' = c.items
    /\ expires' = c.expires
    /\ usedBytes' = c.usedBytes
    /\ lruCbs' = c.cbs

\* The client may make a call: the process runs and no Get is under way.
LruIdle == lruStatus = "ok" /\ getting = NoGet

\* What a call of the client leaves alone besides the cache's fields.
LruRest == UNCHANGED <<maxBytes, wall, cleanupTicker, tickC, closeCh, cleaning, deleting,
                       getting, lruStatus>>

\* newLRUCache(opts) with opts.MaxBytes = max.
newLRUCache(max) ==
    /\ list = <<>>
    /\ items = {}
    /\ expires = <<>>
    /\ maxBytes = max
    /\ usedBytes = 0
    /\ cleanupTicker = TRUE
    /\ tickC = FALSE
    /\ closeCh = "open"
    /\ cleaning = TRUE
    /\ deleting = [key \in LruKeys |-> 0]
    /\ getting = NoGet
    /\ lruOp = Ret("new", "", 0, FALSE)
    /\ lruCbs = <<>>
    /\ lruStatus = "ok"

InitLRU == wall = 0 /\ \E max \in LruBudgets : newLRUCache(max)

\* The single-tier cache while the specification is of another engine.
IdleLRU == wall = 0 /\ newLRUCache(0)

\* Get up to the release of the read lock: not-found for a key items does
\* not hold; for an expired key not-found and a goroutine that will call
\* Delete(key); else the value is read and the move to the front is due.
LruGet(key) ==
    /\ LruIdle
    /\ IF key \notin items
       THEN lruOp' = Ret("Get", key, 0, FALSE) /\ UNCHANGED <<deleting, getting>>
       ELSE IF hasExpired(expires, key, wall)
       THEN /\ deleting[key] < MaxPending
            /\ deleting' = [deleting EXCEPT ![key] = @ + 1]
            /\ lruOp' = Ret("Get", key, 0, FALSE)
            /\ UNCHANGED getting
       ELSE /\ getting' = [key |-> key, value |-> list[IndexOf(list, key)].value]
            /\ lruOp' = Ret("Get.RUnlock", key, list[IndexOf(list, key)].value, TRUE)
            /\ UNCHANGED deleting
    /\ lruCbs' = <<>>
    /\ UNCHANGED <<list, items, expires, usedBytes, maxBytes, wall, cleanupTicker, tickC,
                   closeCh, cleaning, lruStatus>>

\* Get from the write lock on: the element moves to the front if items
\* still holds the key, and the value read before is returned.
LruGetMove ==
    /\ lruStatus = "ok" /\ getting # NoGet
    /\ list' = IF getting.key \in items THEN MoveToFront(list, getting.key) ELSE list
    /\ getting' = NoGet
    /\ lruOp' = Ret("Get", getting.key, getting.value, TRUE)
    /\ lruCbs' = <<>>
    /\ UNCHANGED <<items, expires, usedBytes, maxBytes, wall, cleanupTicker, tickC,
                   closeCh, cleaning, deleting, lruStatus>>

\* The body of Delete: removeElement if items holds the key.
deleteKey(c, key) == IF key \in c.items THEN removeElement(c, key) ELSE c

\* SetWithExpiration, the expiry map after lines 91-97.
setExpires(ex, key, expiration, t) ==
    IF expiration > 0 THEN MapSet(ex, key, t + expiration) ELSE MapDel(ex, key)

\* SetWithExpiration on a key items holds: new value, moved to the front.
setUpdate(c, key, value, ex) ==
    LruState(PushFront(Remove(c.list, key), [key |-> key, value |-> value]), c.items, ex,
             c.usedBytes + (value - c.list[IndexOf(c.list, key)].value), c.cbs)

\* SetWithExpiration on a new key, up to the call of evict.
setInsert(c, key, value, ex) ==
    LruState(PushFront(c.list, [key |-> key, value |-> value]), c.items \cup {key}, ex,
             c.usedBytes + entryBytes([key |-> key, value |-> value]), c.cbs)

LruSetWithExpiration(key, value, expiration) ==
    /\ LruIdle
    /\ IF value = 0 THEN LruStore(deleteKey(LruNow, key))
       ELSE IF key \in items
       THEN LruStore(setUpdate(LruNow, key, value, setExpires(expires, key, expiration, wall)))
       ELSE \E order \in Orders(DOMAIN setExpires(expires, key, expiration, wall)) :
              LruStore(evict(setInsert(LruNow, key, value,
                                       setExpires(expires, key, expiration, wall)),
                             order, wall, maxBytes))
    /\ lruOp' = Ret("Set", key, value, TRUE)
    /\ LruRest

LruSet(key, value) == LruSetWithExpiration(key, value, 0)

LruDelete(key) ==
    /\ LruIdle
    /\ LruStore(deleteKey(LruNow, key))
    /\ lruOp' = Ret("Delete", key, 0, key \in items)
    /\ LruRest

\* Clear: the callback for every item in the map's order, then all emptied.
LruClear ==
    /\ LruIdle
    /\ \E order \in Orders(items) :
         lruCbs' = [i \in DOMAIN order |-> <<order[i], list[IndexOf(list, order[i])].value>>]
    /\ list' = <<>>
    /\ items' = {}
    /\ expires' = <<>>
    /\ usedBytes' = 0
    /\ lruOp' = Ret("Clear", "", 0, FALSE)
    /\ LruRest

LruLen ==
    /\ LruIdle
    /\ lruOp' = Ret("Len", "", Len(list), TRUE)
    /\ lruCbs' = <<>>
    /\ UNCHANGED <<list, items, expires, usedBytes>>
    /\ LruRest

\* Close: the ticker stops and closeCh is closed; close of a closed channel
\* panics. With the go 1.25 of go.mod the ticker's channel is synchronous:
\* after Stop no tick that the ticker had ready is received.
LruClose ==
    /\ LruIdle
    /\ cleanupTicker' = FALSE
    /\ tickC' = FALSE
    /\ IF closeCh = "closed"
       THEN lruStatus' = "panic" /\ UNCHANGED closeCh
       ELSE closeCh' = "closed" /\ UNCHANGED lruStatus
    /\ lruOp' = Ret("Close", "", 0, FALSE)
    /\ lruCbs' = <<>>
    /\ UNCHANGED <<list, items, expires, usedBytes, maxBytes, wall, cleaning,
                   deleting, getting>>

\* GetWithExpiration, under the write lock throughout (the remaining time
\* it also returns is not kept).
LruGetWithExpiration(key) ==
    /\ LruIdle
    /\ IF key \in items /\ ~hasExpired(expires, key, wall)
       THEN /\ list' = MoveToFront(list, key)
            /\ lruOp' = Ret("GetWithExpiration", key, list[IndexOf(list, key)].value, TRUE)
       ELSE /\ list' = list
            /\ lruOp' = Ret("GetWithExpiration", key, 0, FALSE)
    /\ lruCbs' = <<>>
    /\ UNCHANGED <<items, expires, usedBytes>>
    /\ LruRest

UpdateExpiration(key, expiration) ==
    /\ LruIdle
    /\ expires' = IF key \in items THEN setExpires(expires, key, expiration, wall) ELSE expires
    /\ lruOp' = Ret("UpdateExpiration", key, 0, key \in items)
    /\ lruCbs' = <<>>
    /\ UNCHANGED <<list, items, usedBytes>>
    /\ LruRest

SetMaxBytes(max) ==
    /\ LruIdle
    /\ maxBytes' = max
    /\ IF max > 0
       THEN \E order \in Orders(DOMAIN expires) : LruStore(evict(LruNow, order, wall, max))
       ELSE LruStore(LruNow)
    /\ lruOp' = Ret("SetMaxBytes", "", max, FALSE)
    /\ UNCHANGED <<wall, cleanupTicker, tickC, closeCh, cleaning, deleting, getting, lruStatus>>

\* The running ticker puts a tick in its channel (of capacity 1).
TickerFire ==
    /\ lruStatus = "ok"
    /\ cleanupTicker /\ ~tickC
    /\ tickC' = TRUE
    /\ UNCHANGED <<list, items, expires, maxBytes, usedBytes, wall, cleanupTicker, closeCh,
                   cleaning, deleting, getting, lruOp, lruCbs, lruStatus>>

\* cleanupLoop, case <-c.cleanupTicker.C: evict under the lock.
cleanupLoop ==
    /\ lruStatus = "ok"
    /\ cleaning /\ tickC
    /\ tickC' = FALSE
    /\ \E order \in Orders(DOMAIN expires) : LruStore(evict(LruNow, order, wall, maxBytes))
    /\ lruOp' = Ret("cleanupLoop", "", 0, FALSE)
    /\ UNCHANGED <<maxBytes, wall, cleanupTicker, closeCh, cleaning, deleting, getting,
                   lruStatus>>

\* cleanupLoop, case <-c.closeCh: the goroutine returns.
cleanupReturn ==
    /\ lruStatus = "ok"
    /\ cleaning /\ closeCh = "closed"
    /\ cleaning' = FALSE
    /\ UNCHANGED <<list, items, expires, maxBytes, usedBytes, wall, cleanupTicker, tickC,
                   closeCh, deleting, getting, lruOp, lruCbs, lruStatus>>

\* A goroutine that Get started calls Delete(key).
goDelete(key) ==
    /\ lruStatus = "ok"
    /\ deleting[key] > 0
    /\ deleting' = [deleting EXCEPT ![key] = @ - 1]
    /\ LruStore(deleteKey(LruNow, key))
    /\ lruOp' = Ret("go Delete", key, 0, key \in items)
    /\ UNCHANGED <<maxBytes, wall, cleanupTicker, tickC, closeCh, cleaning, getting, lruStatus>>

\* time.Now() moves on.
WallTick ==
    /\ lruStatus = "ok"
    /\ wall < MaxClock
    /\ wall' = wall + 1
    /\ UNCHANGED <<list, items, expires, maxBytes, usedBytes, cleanupTicker, tickC, closeCh,
                   cleaning, deleting, getting, lruOp, lruCbs, lruStatus>>

(* ---------------------------- racing Get ------------------------------- *)
\* lruCache at the level of the pointers of container/list, with a Get of
\* one goroutine in its window between RUnlock and Lock while another
\* goroutine makes calls. An element is a number of Elems, Root is
\* &l.root and NilElem is nil. The cache c has the fields of the elements
\* (next, prev, owner: e.list == l, key, val: the entry), l.len, c.items
\* and c.usedBytes, and made, the number of elements allocated. The calls of
\* these runs pass no expiration and no callback: c.expires stays empty.
VARIABLES raceCache, raceMaxBytes, raceGetting, raceOp, raceStatus

varsRace == <<raceCache, raceMaxBytes, raceGetting, raceOp, raceStatus>>

Root == 0
NilElem == -1
Elems == 1..MaxElems
RaceKeys == {"a", "b"}
RaceVals == {1}
RaceBudgets == {0, 1, 2}
NoElem == [key |-> "", elem |-> NilElem]

\* list.New(), and the empty maps of newLRUCache.
raceNew ==
    [next |-> [e \in 0..MaxElems |-> IF e = Root THEN Root ELSE NilElem],
     prev |-> [e \in 0..MaxElems |-> IF e = Root THEN Root ELSE NilElem],
     owner |-> [e \in Elems |-> FALSE],
     key |-> [e \in Elems |-> ""],
     val |-> [e \in Elems |-> 0],
     len |-> 0, items |-> <<>>, usedBytes |-> 0, made |-> 0, panic |-> FALSE]

\* No racing Get is modelled in that run.
IdleRace ==
    /\ raceCache = raceNew /\ raceMaxBytes = 0 /\ raceGetting = NoElem
    /\ raceOp = Ret("new", "", 0, FALSE) /\ raceStatus = "ok"

InitRace ==
    /\ raceCache = raceNew /\ raceMaxBytes \in RaceBudgets /\ raceGetting = NoElem
    /\ raceOp = Ret("new", "", 0, FALSE) /\ raceStatus = "ok"

\* List.Init(): the root points to itself; the elements keep their fields.
listInit(c) == [c EXCEPT !.next[Root] = Root, !.prev[Root] = Root, !.len = 0]

\* "e.prev.next = e.next; e.next.prev = e.prev", the start of remove and move.
listUnlinkPrev(c, e) == [c EXCEPT !.next[c.prev[e]] = c.next[e]]
listUnlinkNext(c, e) == [c EXCEPT !.prev[c.next[e]] = c.prev[e]]
listUnlink(c, e) == listUnlinkNext(listUnlinkPrev(c, e), e)

\* List.remove after the unlinking:
\* "e.next = nil; e.prev = nil; e.list = nil; l.len--".
listForget(c, e) ==
    [c EXCEPT !.next[e] = NilElem, !.prev[e] = NilElem, !.owner[e] = FALSE,
              !.len = c.len - 1]

\* List.Remove(e)
listRemove(c, e) == IF c.owner[e] THEN listForget(listUnlink(c, e), e) ELSE c

\* "e.prev = at; e.next = at.next" and "e.prev.next = e; e.next.prev = e"
\* of insert and move, with at = &l.root.
listAtRoot(c, e) == [c EXCEPT !.prev[e] = Root, !.next[e] = c.next[Root]]
listLinkPrev(c, e) == [c EXCEPT !.next[c.prev[e]] = e]
listLinkNext(c, e) == [c EXCEPT !.prev[c.next[e]] = e]
listLink(c, e) == listLinkNext(listLinkPrev(listAtRoot(c, e), e), e)

\* List.MoveToFront(e)
listMoveToFront(c, e) ==
    IF ~c.owner[e] \/ c.next[Root] = e THEN c ELSE listLink(listUnlink(c, e), e)

\* List.PushFront of a new element e with the entry {key, value}.
listPushFront(c, e, key, value) ==
    [listLink(c, e) EXCEPT !.owner[e] = TRUE, !.len = c.len + 1,
                           !.key[e] = key, !.val[e] = value, !.made = e]

\* delete(c.items, key)
itemsDelete(its, key) == [k \in DOMAIN its \ {key} |-> its[k]]
\* c.items[key] = elem
itemsSet(its, key, e) == [k \in DOMAIN its \cup {key} |-> IF k = key THEN e ELSE its[k]]

\* lruCache.removeElement(elem): elem.Value.(*lruEntry) panics on the root,
\* whose Value is nil.
raceRemoveElement(c, e) ==
    IF e = Root THEN [c EXCEPT !.panic = TRUE]
    ELSE [listRemove(c, e) EXCEPT
            !.items = itemsDelete(c.items, c.key[e]),
            !.usedBytes = c.usedBytes - (Len(KeyBytes(c.key[e])) + c.val[e])]

\* lruCache.evict with c.expires empty: the loop on the byte budget.
RECURSIVE raceEvict(_, _)
raceEvict(c, max) ==
    IF ~c.panic /\ max > 0 /\ c.usedBytes > max /\ c.len > 0
    THEN raceEvict(raceRemoveElement(c, c.next[Root]), max)
    ELSE c

\* The fields after a call that yielded c.
RaceStore(c) ==
    /\ raceCache' = [c EXCEPT !.panic = FALSE]
    /\ raceStatus' = IF c.panic THEN "panic" ELSE "ok"

\* Get up to RUnlock: a miss returns; a hit keeps elem for the bump.
RaceGet(key) ==
    /\ raceStatus = "ok" /\ raceGetting = NoElem
    /\ raceGetting' = IF key \in DOMAIN raceCache.items
                      THEN [key |-> key, elem |-> raceCache.items[key]]
                      ELSE NoElem
    /\ raceOp' = IF key \in DOMAIN raceCache.items
                 THEN Ret("Get.RUnlock", key, raceCache.val[raceCache.items[key]], TRUE)
                 ELSE Ret("Get", key, 0, FALSE)
    /\ UNCHANGED <<raceCache, raceMaxBytes, raceStatus>>

\* Get from Lock on: "if _, ok := c.items[key]; ok { c.list.MoveToFront(elem) }".
RaceGetMove ==
    /\ raceStatus = "ok" /\ raceGetting # NoElem
    /\ RaceStore(IF raceGetting.key \in DOMAIN raceCache.items
                 THEN listMoveToFront(raceCache, raceGetting.elem)
                 ELSE raceCache)
    /\ raceGetting' = NoElem
    /\ raceOp' = Ret("Get", raceGetting.key, raceOp.v, TRUE)
    /\ UNCHANGED raceMaxBytes

\* SetWithExpiration with expiration 0, the key present: the update.
raceUpdate(c, e, value) ==
    listMoveToFront([c EXCEPT !.usedBytes = c.usedBytes + (value - c.val[e]),
                              !.val[e] = value], e)

\* The key absent: the insertion of the new element e, then evict.
raceInsert(c, e, key, value, max) ==
    raceEvict([listPushFront(c, e, key, value) EXCEPT
                 !.items = itemsSet(c.items, key, e),
                 !.usedBytes = c.usedBytes + Len(KeyBytes(key)) + value], max)

\* lruCache.Set of another goroutine (a new element is allocated while
\* fewer than MaxElems were).
RaceSet(key, value) ==
    /\ raceStatus = "ok"
    /\ key \in DOMAIN raceCache.items \/ raceCache.made < MaxElems
    /\ RaceStore(IF key \in DOMAIN raceCache.items
                 THEN raceUpdate(raceCache, raceCache.items[key], value)
                 ELSE raceInsert(raceCache, raceCache.made + 1, key, value, raceMaxBytes))
    /\ raceOp' = Ret("Set", key, value, TRUE)
    /\ UNCHANGED <<raceMaxBytes, raceGetting>>

\* lruCache.Delete
RaceDelete(key) ==
    /\ raceStatus = "ok"
    /\ RaceStore(IF key \in DOMAIN raceCache.items
                 THEN raceRemoveElement(raceCache, raceCache.items[key])
                 ELSE raceCache)
    /\ raceOp' = Ret("Delete", key, 0, key \in DOMAIN raceCache.items)
    /\ UNCHANGED <<raceMaxBytes, raceGetting>>

\* lruCache.Clear
RaceClear ==
    /\ raceStatus = "ok"
    /\ RaceStore([listInit(raceCache) EXCEPT !.items = <<>>, !.usedBytes = 0])
    /\ raceOp' = Ret("Clear", "", 0, FALSE)
    /\ UNCHANGED <<raceMaxBytes, raceGetting>>

\* lruCache.Len: c.list.Len()
RaceLen ==
    /\ raceStatus = "ok"
    /\ raceOp' = Ret("Len", "", raceCache.len, TRUE)
    /\ UNCHANGED <<raceCache, raceMaxBytes, raceGetting, raceStatus>>

\* lruCache.SetMaxBytes
RaceSetMaxBytes(max) ==
    /\ raceStatus = "ok"
    /\ raceMaxBytes' = max
    /\ RaceStore(IF max > 0 THEN raceEvict(raceCache, max) ELSE raceCache)
    /\ raceOp' = Ret("SetMaxBytes", "", max, FALSE)
    /\ UNCHANGED raceGetting

(* ---------------------------- shard count ------------------------------ *)
\* newLRU2Cache and the shard index for every BucketCount, without the
\* caches: router has the BucketCount asked for, then the mask and the
\* number of shards made, and the index of the last key looked up (bytes
\* are the key's bytes; idx is -1 before a lookup).
VARIABLE router

varsRouter == <<router>>

\* The largest uint16.
MaxUint16 == 65535

BucketCounts == 0..MaxUint16

\* The keys looked up, by their bytes: "a", and "abcde" and "user:42", whose
\* hashes have wrapped to a negative int32.
RouterKeys == {<<97>>, <<97, 98, 99, 100, 101>>, <<117, 115, 101, 114, 58, 52, 50>>}

Asked(bc) == [bc |-> bc, built |-> FALSE, mask |-> 0, count |-> 0, bytes |-> <<>>, idx |-> -1]

\* No store is asked for in that run.
IdleRouter == router = Asked(0)

InitRouter == \E bc \in BucketCounts : router = Asked(bc)

\* newLRU2Cache: the mask of the BucketCount (16 for 0) and the shards made.
routerMask(bc) == maskOfNextPowOf2(IF bc = 0 THEN 16 ELSE bc)

RouterBuild ==
    /\ ~router.built
    /\ router' = [router EXCEPT !.built = TRUE, !.mask = routerMask(router.bc),
                                !.count = shardCount(routerMask(router.bc))]

\* "idx := hashBKRD(key) & s.mask" of Get, SetWithExpiration and Delete.
RouterIndex(bytes) ==
    /\ router.built
    /\ router' = [router EXCEPT !.bytes = bytes,
                                !.idx = BitAnd(hashFrom(bytes, 1, <<0, 0>>)[2], router.mask)]

(* ---------------------------- package clock ---------------------------- *)
\* The goroutine of init() that keeps the package clock, running on
\* schedule: every time.Sleep lasts exactly 100ms. Times are in units of
\* 100 microseconds. trueNs is time.Now().UnixNano(), clockNs the variable
\* clock, clockPc the statement the goroutine is at, slept the i of its
\* loop, and nowRead the last value that Now() returned.
VARIABLES trueNs, clockNs, clockPc, slept, nowRead

varsClock == <<trueNs, clockNs, clockPc, slept, nowRead>>

\* time.Millisecond * 100
sleepStep == 1000
\* int64(100 * time.Microsecond)
addStep == 1
\* "for i := 0; i < 9; i++"
interpolations == 9

\* The time between the initialisation of clock and the start of the
\* goroutine.
StartDelays == {0, 1}

\* No clock goroutine is modelled in that run.
IdleClock == trueNs = 0 /\ clockNs = 0 /\ clockPc = "store" /\ slept = 0 /\ nowRead = 0

InitClock ==
    /\ trueNs \in StartDelays /\ clockNs = 0 /\ clockPc = "store" /\ slept = 0
    /\ nowRead = 0

\* atomic.StoreInt64(&clock, time.Now().UnixNano())
ClockStore ==
    /\ clockPc = "store"
    /\ trueNs < MaxSeconds * (interpolations + 1) * sleepStep
    /\ clockNs' = trueNs
    /\ slept' = 0
    /\ clockPc' = "sleep"
    /\ UNCHANGED <<trueNs, nowRead>>

\* time.Sleep(time.Millisecond * 100), in the loop and after it.
ClockSleep ==
    /\ clockPc = "sleep"
    /\ trueNs' = trueNs + sleepStep
    /\ clockPc' = IF slept < interpolations THEN "add" ELSE "store"
    /\ UNCHANGED <<clockNs, slept, nowRead>>

\* atomic.AddInt64(&clock, int64(100*time.Microsecond)); i++
ClockAdd ==
    /\ clockPc = "add"
    /\ clockNs' = clockNs + addStep
    /\ slept' = slept + 1
    /\ clockPc' = "sleep"
    /\ UNCHANGED <<trueNs, nowRead>>

\* Now()
ClockNow ==
    /\ nowRead' = clockNs
    /\ UNCHANGED <<trueNs, clockNs, clockPc, slept>>

(* ---------------------------- specifications --------------------------- *)
\* The package-level state: the shard count and the clock.
varsPackage == <<varsRouter, varsClock>>
IdlePackage == IdleRouter /\ IdleClock

vars == <<varsL2, varsCache, varsHistory, varsLRU, varsSweep, varsLocks, varsRace,
         varsRouter, varsClock>>

\* What a step of the small store leaves alone.
Uncounted ==
    /\ UNCHANGED nops /\ UNCHANGED varsCache /\ UNCHANGED varsHistory
    /\ UNCHANGED varsLRU /\ UNCHANGED varsSweep /\ UNCHANGED varsLocks /\ UNCHANGED varsRace /\ UNCHANGED varsPackage

\* The LRU-2 store with one shard and one slot per tier, any number of calls.
InitSmall == InitL2(SmallOptions) /\ IdleCache /\ IdleHistory /\ IdleLRU /\ IdleSweep /\ IdleLocks /\ IdleRace /\ IdlePackage

NextSmall ==
    \/ \E key \in Keys : Get(key) /\ Uncounted
    \/ \E key \in Keys, value \in Vals : Set(key, value) /\ Uncounted
    \/ \E key \in Keys, value \in Vals, expiration \in TTLs :
         SetWithExpiration(key, value, expiration) /\ Uncounted
    \/ \E key \in Keys : Delete(key) /\ Uncounted
    \/ Clear /\ Uncounted
    \/ LenCall /\ Uncounted
    \/ Close /\ Uncounted
    \/ Tick /\ Uncounted

Spec == InitSmall /\ [][NextSmall]_vars

\* A call of the MaxOps a run of the wider stores makes.
Counted ==
    /\ nops < MaxOps /\ nops' = nops + 1
    /\ UNCHANGED varsCache /\ UNCHANGED varsHistory
    /\ UNCHANGED varsLRU /\ UNCHANGED varsSweep /\ UNCHANGED varsLocks /\ UNCHANGED varsRace /\ UNCHANGED varsPackage

\* The wider LRU-2 stores, MaxOps calls (clock ticks are not calls).
InitWide == InitL2(WideOptions) /\ IdleCache /\ IdleHistory /\ IdleLRU /\ IdleSweep /\ IdleLocks /\ IdleRace /\ IdlePackage

NextWide ==
    \/ \E key \in Keys : Get(key) /\ Counted
    \/ \E key \in Keys, value \in Vals : Set(key, value) /\ Counted
    \/ \E key \in Keys, value \in Vals, expiration \in TTLs :
         SetWithExpiration(key, value, expiration) /\ Counted
    \/ \E key \in Keys : Delete(key) /\ Counted
    \/ Clear /\ Counted
    \/ LenCall /\ Counted
    \/ Close /\ Counted
    \/ Tick /\ Uncounted

SpecWide == InitWide /\ [][NextWide]_vars

\* The small LRU-2 store with the promotion history.
Tracked ==
    /\ HotUpdate /\ UNCHANGED latest /\ UNCHANGED nops
    /\ UNCHANGED varsCache /\ UNCHANGED varsLRU /\ UNCHANGED varsSweep /\ UNCHANGED varsLocks /\ UNCHANGED varsRace /\ UNCHANGED varsPackage

NextHot ==
    \/ \E key \in Keys : Get(key) /\ Tracked
    \/ \E key \in Keys, value \in Vals : Set(key, value) /\ Tracked
    \/ \E key \in Keys, value \in Vals, expiration \in TTLs :
         SetWithExpiration(key, value, expiration) /\ Tracked
    \/ \E key \in Keys : Delete(key) /\ Tracked
    \/ Clear /\ Tracked
    \/ LenCall /\ Tracked
    \/ Close /\ Tracked
    \/ Tick /\ Tracked

SpecHot == InitSmall /\ [][NextHot]_vars

\* The small LRU-2 store with the write history.
RecycleOptions == {Opts(1, 2, 1)}

InitRecycle == InitL2(RecycleOptions) /\ IdleCache /\ IdleHistory /\ IdleLRU /\ IdleSweep /\ IdleLocks /\ IdleRace /\ IdlePackage

Written ==
    /\ LatestUpdate /\ UNCHANGED hot
    /\ UNCHANGED varsCache /\ UNCHANGED varsLRU /\ UNCHANGED varsSweep /\ UNCHANGED varsLocks /\ UNCHANGED varsRace /\ UNCHANGED varsPackage

WrittenCall == nops < MaxCalls /\ nops' = nops + 1 /\ Written

NextLatest ==
    \/ \E key \in Keys : Get(key) /\ WrittenCall
    \/ \E key \in Keys, value \in Vals : Set(key, value) /\ WrittenCall
    \/ \E key \in Keys : Delete(key) /\ WrittenCall

SpecLatest == InitRecycle /\ [][NextLatest]_vars

\* The LRU-2 stores with the cleanup goroutine at work: MaxOps calls, and
\* the ticks and passes of cleanupLoop between them.
SweepOptions == {Opts(1, 1, 1), Opts(2, 1, 1)}
\* The keys of its calls: "a" is on shard 1 and "b" on shard 0 of two.
SweepKeys == {"a", "b"}
\* The value of its writes (a pass does not look at values).
SweepVals == {1}

InitSweep == InitL2(SweepOptions) /\ IdleCache /\ IdleHistory /\ IdleLRU /\ IdleSweep /\ IdleLocks /\ IdleRace /\ IdlePackage

\* What a step of the store or of its cleanup goroutine leaves alone.
Background ==
    /\ UNCHANGED varsCache /\ UNCHANGED varsHistory /\ UNCHANGED varsLRU
    /\ UNCHANGED varsLocks /\ UNCHANGED varsRace /\ UNCHANGED varsPackage

SweptCall == nops < MaxOps /\ nops' = nops + 1 /\ UNCHANGED sweep /\ Background

NextSweep ==
    \/ \E key \in SweepKeys : Get(key) /\ SweptCall
    \/ \E key \in SweepKeys, value \in SweepVals : Set(key, value) /\ SweptCall
    \/ \E key \in SweepKeys, value \in SweepVals, expiration \in TTLs :
         SetWithExpiration(key, value, expiration) /\ SweptCall
    \/ \E key \in SweepKeys : Delete(key) /\ SweptCall
    \/ SweepClose /\ nops < MaxOps /\ nops' = nops + 1 /\ Background
    \/ Tick /\ UNCHANGED nops /\ UNCHANGED sweep /\ Background
    \/ CleanupTick /\ UNCHANGED nops /\ Background
    \/ SweepStart /\ UNCHANGED nops /\ Background
    \/ SweepShard /\ UNCHANGED nops /\ Background

SpecSweep == InitSweep /\ [][NextSweep]_vars

\* The LRU-2 store with two shards under the clients and cleanupLoop:
\* MaxLockCalls calls of the clients and passes of cleanupLoop.
LockOptions == {Opts(2, 2, 1)}

InitShared ==
    /\ InitL2(LockOptions) /\ InitLocks
    /\ IdleCache /\ IdleHistory /\ IdleLRU /\ IdleSweep /\ IdleRace /\ IdlePackage

\* What a step of a goroutine of the store leaves alone.
Shared ==
    /\ UNCHANGED varsCache /\ UNCHANGED varsHistory /\ UNCHANGED varsLRU
    /\ UNCHANGED varsSweep /\ UNCHANGED varsRace /\ UNCHANGED varsPackage

SharedCall == nops < MaxLockCalls /\ nops' = nops + 1 /\ Shared
SharedStep == UNCHANGED nops /\ Shared

NextLocks ==
    \/ \E t \in Clients, key \in Keys : CallKey(t, "Get", key, 0) /\ SharedCall
    \/ \E t \in Clients, key \in Keys, expiration \in LockTTLs :
         CallKey(t, "Set", key, expiration) /\ SharedCall
    \/ \E t \in Clients, key \in Keys : CallKey(t, "Delete", key, 0) /\ SharedCall
    \/ \E t \in Clients : CallAll(t, "Len") /\ SharedCall
    \/ \E t \in Clients : CallAll(t, "Clear") /\ SharedCall
    \/ CallSweep /\ SharedCall
    \/ \E t \in Clients : EnterGet(t) /\ SharedStep
    \/ \E t \in Clients : EnterSet(t) /\ SharedStep
    \/ \E t \in Clients : EnterDelete(t) /\ SharedStep
    \/ \E t \in Clients : EnterLen(t) /\ SharedStep
    \/ \E t \in Clients : EnterClear(t) /\ SharedStep
    \/ EnterSweep /\ SharedStep
    \/ \E t \in Threads : Unlock(t) /\ SharedStep

SpecLocks == InitShared /\ [][NextLocks]_vars

\* One slot cache under put, get and del.
InitSlots ==
    InitCache /\ InitL2(SmallOptions) /\ IdleHistory /\ IdleLRU /\ IdleSweep /\ IdleLocks /\ IdleRace /\ IdlePackage

\* What a step of the slot cache leaves alone.
OnlySlots ==
    UNCHANGED varsL2 /\ UNCHANGED varsHistory /\ UNCHANGED varsLRU /\ UNCHANGED varsSweep /\ UNCHANGED varsLocks /\ UNCHANGED varsRace /\ UNCHANGED varsPackage

NextSlots ==
    \/ \E key \in CacheKeys, val \in Vals, expireAt \in CacheExpiries :
         CachePut(key, val, expireAt) /\ OnlySlots
    \/ \E key \in CacheKeys : CacheGet(key) /\ OnlySlots
    \/ \E key \in CacheKeys : CacheDel(key) /\ OnlySlots

SpecCache == InitSlots /\ [][NextSlots]_vars

\* The single-tier LRU cache: one client and the cache's own goroutines.
OnlyLRU ==
    UNCHANGED varsL2 /\ UNCHANGED varsCache /\ UNCHANGED varsHistory /\ UNCHANGED varsSweep /\ UNCHANGED varsLocks /\ UNCHANGED varsRace /\ UNCHANGED varsPackage

InitSingle ==
    InitLRU /\ InitL2(SmallOptions) /\ IdleCache /\ IdleHistory /\ IdleSweep /\ IdleLocks /\ IdleRace /\ IdlePackage

NextLRU ==
    \/ \E key \in LruKeys : LruGet(key) /\ OnlyLRU
    \/ LruGetMove /\ OnlyLRU
    \/ \E key \in LruKeys, value \in LruVals : LruSet(key, value) /\ OnlyLRU
    \/ \E key \in LruKeys, value \in LruVals, expiration \in TTLs :
         LruSetWithExpiration(key, value, expiration) /\ OnlyLRU
    \/ \E key \in LruKeys : LruDelete(key) /\ OnlyLRU
    \/ LruClear /\ OnlyLRU
    \/ LruLen /\ OnlyLRU
    \/ LruClose /\ OnlyLRU
    \/ \E key \in LruKeys : LruGetWithExpiration(key) /\ OnlyLRU
    \/ \E key \in LruKeys, expiration \in TTLs : UpdateExpiration(key, expiration) /\ OnlyLRU
    \/ \E max \in LruBudgets : SetMaxBytes(max) /\ OnlyLRU
    \/ TickerFire /\ OnlyLRU
    \/ cleanupLoop /\ OnlyLRU
    \/ cleanupReturn /\ OnlyLRU
    \/ \E key \in LruKeys : goDelete(key) /\ OnlyLRU
    \/ WallTick /\ OnlyLRU

SpecLRU == InitSingle /\ [][NextLRU]_vars

\* lruCache with a Get under way while another goroutine makes calls.
InitRacing ==
    /\ InitRace /\ InitL2(SmallOptions)
    /\ IdleCache /\ IdleHistory /\ IdleLRU /\ IdleSweep /\ IdleLocks /\ IdlePackage

OnlyRace ==
    /\ UNCHANGED varsL2 /\ UNCHANGED varsCache /\ UNCHANGED varsHistory
    /\ UNCHANGED varsLRU /\ UNCHANGED varsSweep /\ UNCHANGED varsLocks
    /\ UNCHANGED varsPackage

NextRace ==
    \/ \E key \in RaceKeys : RaceGet(key) /\ OnlyRace
    \/ RaceGetMove /\ OnlyRace
    \/ \E key \in RaceKeys, value \in RaceVals : RaceSet(key, value) /\ OnlyRace
    \/ \E key \in RaceKeys : RaceDelete(key) /\ OnlyRace
    \/ RaceClear /\ OnlyRace
    \/ RaceLen /\ OnlyRace
    \/ \E max \in RaceBudgets : RaceSetMaxBytes(max) /\ OnlyRace

SpecRace == InitRacing /\ [][NextRace]_vars

\* The engines at rest while a package-level function is followed.
NoEngine ==
    /\ InitL2(SmallOptions) /\ IdleCache /\ IdleHistory /\ IdleLRU /\ IdleSweep
    /\ IdleLocks /\ IdleRace

OnlyPackage ==
    /\ UNCHANGED varsL2 /\ UNCHANGED varsCache /\ UNCHANGED varsHistory
    /\ UNCHANGED varsLRU /\ UNCHANGED varsSweep /\ UNCHANGED varsLocks
    /\ UNCHANGED varsRace

\* The shards made for each BucketCount and the index of each key.
InitShards == InitRouter /\ IdleClock /\ NoEngine

NextShards ==
    \/ RouterBuild /\ UNCHANGED varsClock /\ OnlyPackage
    \/ \E bytes \in RouterKeys : RouterIndex(bytes) /\ UNCHANGED varsClock /\ OnlyPackage

SpecShards == InitShards /\ [][NextShards]_vars

\* The package clock over MaxSeconds seconds.
InitTime == InitClock /\ IdleRouter /\ NoEngine

NextTime ==
    \/ ClockStore /\ UNCHANGED varsRouter /\ OnlyPackage
    \/ ClockSleep /\ UNCHANGED varsRouter /\ OnlyPackage
    \/ ClockAdd /\ UNCHANGED varsRouter /\ OnlyPackage
    \/ ClockNow /\ UNCHANGED varsRouter /\ OnlyPackage

SpecClock == InitTime /\ [][NextTime]_vars

(* ---------------------------- claims ----------------------------------- *)
\* Tier 1 and tier 2 of the key's shard in the caches cs.
T1(cs, key) == Tier1(cs[ShardOf(key, mask)])
T2(cs, key) == Tier2(cs[ShardOf(key, mask)])

\* The step is a call of the named operation on key (every action writes op,
\* and only Tick moves the clock).
Called(name, key) == op'.op = name /\ op'.key = key /\ clock' = clock

\* C1: a Get(key) that finds a live, unexpired entry in tier 1 returns its
\* value with found = true, leaves no live entry for key in tier 1 and a live
\* entry with the same value and expiry in tier 2.
C1_GetPromotes ==
    [][\A key \in Keys :
         (/\ Called("Get", key)
          /\ Live(T1(caches, key), key)
          /\ NodeOf(T1(caches, key), key).expireAt > clock)
         => /\ status' = "ok"
            /\ op'.found /\ op'.v = NodeOf(T1(caches, key), key).v
            /\ ~Live(T1(caches', key), key)
            /\ Live(T2(caches', key), key)
            /\ NodeOf(T2(caches', key), key).v = NodeOf(T1(caches, key), key).v
            /\ NodeOf(T2(caches', key), key).expireAt
                 = NodeOf(T1(caches, key), key).expireAt]_vars

\* C1 for the calls that return: what the promotion does when put on tier 2
\* does not panic.
C1_GetPromotesIfReturns ==
    [][\A key \in Keys :
         (/\ Called("Get", key)
          /\ status' = "ok"
          /\ Live(T1(caches, key), key)
          /\ NodeOf(T1(caches, key), key).expireAt > clock)
         => /\ op'.found /\ op'.v = NodeOf(T1(caches, key), key).v
            /\ ~Live(T1(caches', key), key)
            /\ Live(T2(caches', key), key)
            /\ NodeOf(T2(caches', key), key).v = NodeOf(T1(caches, key), key).v
            /\ NodeOf(T2(caches', key), key).expireAt
                 = NodeOf(T1(caches, key), key).expireAt]_vars

\* C3: no sequence of LRU-2 calls panics.
C3_NoPanic == status # "panic"

\* C2 (LRU-2): after Set(key, value), or SetWithExpiration(key, value, ttl)
\* with ttl <= 0, and before any other call, Get(key) returns (value, true)
\* at every later clock value and Len() counts the entry.
C2_NoTTLNeverExpires ==
    [][\A key \in Keys, value \in Vals :
         (/\ \/ Set(key, value)
             \/ \E ttl \in TTLs : ttl <= 0 /\ SetWithExpiration(key, value, ttl)
          /\ status' = "ok")
         => /\ \A t \in clock..MaxClock :
                 /\ GetShard(caches'[ShardOf(key, mask)], key, t).found
                 /\ GetShard(caches'[ShardOf(key, mask)], key, t).v = value
            /\ \E i \in DOMAIN walk(T1(caches', key)).visited :
                 walk(T1(caches', key)).visited[i].k = key]_vars

\* C4: after put of C+M different keys (M >= 1) into a new cache of capacity
\* C and nothing else, exactly the C keys put last are live, and the callback
\* was made once for each of the M keys put first, in that order, with the
\* value each was put with.
C4_BoundedCapacity ==
    (scOnlyPuts /\ Len(scPuts) > Len(sc.m))
    => /\ scStatus = "ok"
       /\ LiveKeys(sc) = {scPuts[i][1] : i \in (Len(scPuts) - Len(sc.m) + 1)..Len(scPuts)}
       /\ Cardinality(LiveKeys(sc)) = Len(sc.m)
       /\ scEvicted = SubSeq(scPuts, 1, Len(scPuts) - Len(sc.m))

\* C4 for capacities of 2 and more.
C4_BoundedCapacityFrom2 == Len(sc.m) >= 2 => C4_BoundedCapacity

\* C5: once a hitting Get(k) has promoted k, and while only Sets of other
\* keys (and Gets of k) follow and k's expiry has not passed, the store has
\* not panicked, Get(k) would return found with k's value, and no call made
\* the eviction callback for k.
C5_PromotedStays ==
    (hot.key # "" /\ hot.e > clock)
    => /\ status = "ok"
       /\ GetShard(caches[ShardOf(hot.key, mask)], hot.key, clock).found
       /\ GetShard(caches[ShardOf(hot.key, mask)], hot.key, clock).v = hot.v
       /\ \A i \in DOMAIN cbs : cbs[i][1] # hot.key

\* C5 for the runs that do not panic.
C5_PromotedStaysIfNoPanic == status = "ok" => C5_PromotedStays

\* The key's entry in c is live and its expiry has passed at time now.
Expired(c, key, now) == Live(c, key) /\ NodeOf(c, key).expireAt <= now

\* The key is among the entries a walk of c visits.
Walked(c, key) == \E i \in DOMAIN walk(c).visited : walk(c).visited[i].k = key

\* C6: Get(key) on an expired entry, in tier 1 or (tier 1 having no live
\* entry) in tier 2, returns not-found and leaves no live entry for key in
\* either tier, so that Len() does not count it.
C6_GetExpired ==
    [][\A key \in Keys :
         (/\ Called("Get", key)
          /\ \/ Expired(T1(caches, key), key, clock)
             \/ ~Live(T1(caches, key), key) /\ Expired(T2(caches, key), key, clock))
         => /\ ~op'.found
            /\ ~Live(T1(caches', key), key) /\ ~Live(T2(caches', key), key)
            /\ ~Walked(T1(caches', key), key) /\ ~Walked(T2(caches', key), key)]_vars

\* C6 for an expired entry in tier 1.
C6_GetExpiredTier1 ==
    [][\A key \in Keys :
         (Called("Get", key) /\ Expired(T1(caches, key), key, clock))
         => /\ ~op'.found
            /\ ~Live(T1(caches', key), key) /\ ~Live(T2(caches', key), key)
            /\ ~Walked(T1(caches', key), key) /\ ~Walked(T2(caches', key), key)]_vars

\* C7: Delete(key) returns true exactly when a tier of the shard held a
\* live entry for key; afterwards neither tier does and Get(key) is
\* not-found; the callback is made at most once, with the tier-1 value when
\* tier 1 held a live entry, else with the tier-2 value when tier 2 did.
C7_Delete ==
    [][\A key \in Keys :
         Called("Delete", key)
         => /\ op'.found <=> (Live(T1(caches, key), key) \/ Live(T2(caches, key), key))
            /\ ~Live(T1(caches', key), key) /\ ~Live(T2(caches', key), key)
            /\ ~GetShard(caches'[ShardOf(key, mask)], key, clock).found
            /\ Len(cbs') <= 1
            /\ Live(T1(caches, key), key)
                 => cbs' = << <<key, NodeOf(T1(caches, key), key).v>> >>
            /\ (~Live(T1(caches, key), key) /\ Live(T2(caches, key), key))
                 => cbs' = << <<key, NodeOf(T2(caches, key), key).v>> >>
            /\ (~Live(T1(caches, key), key) /\ ~Live(T2(caches, key), key))
                 => cbs' = <<>>]_vars

\* C7's case: a Delete returned true for a key both tiers hold, with
\* different values, and made the callback with the tier-1 value.
C7_Witness ==
    /\ op.op = "Delete" /\ op.found /\ status = "ok"
    /\ op.key \in DOMAIN T1(caches, op.key).hmap
    /\ op.key \in DOMAIN T2(caches, op.key).hmap
    /\ NodeOf(T1(caches, op.key), op.key).v # NodeOf(T2(caches, op.key), op.key).v
    /\ cbs = << <<op.key, NodeOf(T1(caches, op.key), op.key).v>> >>

\* The keys with a live entry in a tier of their shard.
LiveAnywhere(cs) == {k \in Keys : Live(T1(cs, k), k) \/ Live(T2(cs, k), k)}

\* C8: Clear() returns, Len() is 0 afterwards, and the callback was made
\* once for each key that was live in a tier and for no other key.
C8_ClearComplete ==
    [][(op'.op = "Clear" /\ clock' = clock)
       => /\ status' = "ok"
          /\ lenFrom(caches', mask, 0, 0) = [count |-> 0, returns |-> TRUE]
          /\ {cbs'[i][1] : i \in DOMAIN cbs'} = LiveAnywhere(caches)
          /\ Len(cbs') = Cardinality(LiveAnywhere(caches))]_vars

\* C8 for the calls of Clear that return.
C8_ClearCompleteIfReturns ==
    [][(op'.op = "Clear" /\ clock' = clock /\ status' = "ok")
       => /\ lenFrom(caches', mask, 0, 0) = [count |-> 0, returns |-> TRUE]
          /\ {cbs'[i][1] : i \in DOMAIN cbs'} = LiveAnywhere(caches)
          /\ Len(cbs') = Cardinality(LiveAnywhere(caches))]_vars

\* C9: a second Close() on the same store completes without panic, for the
\* single-tier LRU (where closeCh is closed by the first) as for the LRU-2
\* store (whose ticker the first has stopped).
C9_CloseTwice ==
    [][/\ (LruClose /\ closeCh = "closed") => lruStatus' = "ok"
       /\ (Close /\ ~ticking) => status' = "ok"]_vars

\* C9 for the LRU-2 store.
C9_CloseTwiceLRU2 == [][(Close /\ ~ticking) => status' = "ok"]_vars

\* Of the list l from which evict removed, with the expiry map ex, no
\* unexpired entry is gone while a less recently used one is still held.
KeptLRU(l, ex) ==
    \A i, j \in DOMAIN l :
      (i < j /\ ~hasExpired(ex, l[i].key, wall) /\ l[j].key \in items')
      => l[i].key \in items'

\* C10: when evict runs with a budget (in a Set of a new key, in
\* SetMaxBytes, in a cleanup pass), an unexpired entry is not evicted while
\* a less recently used entry stays in the cache; the entry that Set has
\* just inserted is unexpired and the most recently used.
C10_EvictsLRU ==
    [][/\ \A key \in LruKeys, value \in Vals, expiration \in TTLs :
            (LruSetWithExpiration(key, value, expiration) /\ key \notin items /\ maxBytes > 0)
            => KeptLRU(PushFront(list, [key |-> key, value |-> value]),
                       setExpires(expires, key, expiration, wall))
       /\ \A max \in LruBudgets : (SetMaxBytes(max) /\ max > 0) => KeptLRU(list, expires)
       /\ (cleanupLoop /\ maxBytes > 0) => KeptLRU(list, expires)]_vars

\* The slots reached by following next links from slot idx (acc so far),
\* and whether the links end at 0 without reaching a slot twice.
RECURSIVE chainFrom(_, _, _)
chainFrom(c, idx, acc) ==
    IF idx = 0 THEN [slots |-> acc, ends |-> TRUE]
    ELSE IF \E i \in DOMAIN acc : acc[i] = idx THEN [slots |-> acc, ends |-> FALSE]
    ELSE chainFrom(c, Lnk(c, idx, n), Append(acc, idx))

\* The list of c is well formed (ch is the chain from the sentinel's head).
WellFormed(c, ch) ==
    /\ ch.ends
    /\ {ch.slots[i] : i \in DOMAIN ch.slots} = 1..c.last
    /\ Lnk(c, 0, TailCol) = (IF ch.slots = <<>> THEN 0 ELSE ch.slots[Len(ch.slots)])
    /\ Lnk(c, 0, HeadCol) # 0 => Lnk(c, Lnk(c, 0, HeadCol), p) = 0
    /\ Lnk(c, 0, TailCol) # 0 => Lnk(c, Lnk(c, 0, TailCol), n) = 0
    /\ Lnk(c, 0, HeadCol) = 0 <=> c.last = 0
    /\ Lnk(c, 0, TailCol) = 0 <=> c.last = 0

\* C13: in every reachable state of a slot cache the list is well formed:
\* the next links from the head visit the slots 1..last once each and end
\* at the tail, the head has no prev and the tail no next, and head and
\* tail are 0 exactly when no slot is in use.
C13_ListWellFormed == WellFormed(sc, chainFrom(sc, Lnk(sc, 0, HeadCol), <<>>))

\* The walk of c returns, and visits each live entry of c once.
WalkVisitsLive(c) ==
    /\ walk(c).returns
    /\ {walk(c).visited[i].k : i \in DOMAIN walk(c).visited} = LiveKeys(c)
    /\ Len(walk(c).visited) = Cardinality(LiveKeys(c))

\* C14: in every reachable state of the LRU-2 store the walk of each tier
\* of each shard returns and visits each live entry once, and no Len() or
\* Clear() has failed to return.
C14_WalkTerminates ==
    /\ status # "hang"
    /\ status = "ok"
       => \A i \in DOMAIN caches :
            WalkVisitsLive(Tier1(caches[i])) /\ WalkVisitsLive(Tier2(caches[i]))

\* C14 for the walk's return alone.
C14_WalkReturns ==
    status = "ok"
    => \A i \in DOMAIN caches :
         walk(Tier1(caches[i])).returns /\ walk(Tier2(caches[i])).returns

\* C17: in every reachable state of a slot cache the index is a bijection
\* between the indexed keys and the slots in use: hmap[k] is a slot of
\* 1..last that stores k, no two keys share a slot, as many keys are indexed
\* as slots are in use, and last is at most the capacity, which stays one
\* of those a cache is made with.
C17_IndexBijection ==
    /\ \A k \in DOMAIN sc.hmap : sc.hmap[k] \in 1..sc.last /\ sc.m[sc.hmap[k]].k = k
    /\ \A k1, k2 \in DOMAIN sc.hmap : sc.hmap[k1] = sc.hmap[k2] => k1 = k2
    /\ Cardinality(DOMAIN sc.hmap) = sc.last
    /\ sc.last <= Len(sc.m)
    /\ Len(sc.m) \in CacheCaps /\ DOMAIN sc.dlnk = 0..Len(sc.m)

\* C17's case: a put into a full cache of two slots reused a slot, and the
\* key it evicted is no longer indexed.
C17_Witness ==
    /\ scStatus = "ok" /\ scOnlyPuts
    /\ sc.last = Len(sc.m) /\ Len(sc.m) >= 2
    /\ Len(scEvicted) >= 1
    /\ scEvicted[1][1] \notin DOMAIN sc.hmap

\* C16: a Set or SetWithExpiration of key changes tier 1 of the key's shard
\* only: tier 2 of every shard and both tiers of every other shard are as
\* before the call, also when tier 2 holds a live entry for the key.
C16_SetFrame ==
    [][\A key \in Keys, value \in Vals :
         (Set(key, value) \/ \E expiration \in TTLs : SetWithExpiration(key, value, expiration))
         => \A i \in DOMAIN caches :
              /\ Tier2(caches'[i]) = Tier2(caches[i])
              /\ i # ShardOf(key, mask) => caches'[i] = caches[i]]_vars

\* C16's case: in a store of two shards, a Set has written a key that
\* tier 2 holds a live entry for.
C16_Witness ==
    /\ op.op = "Set" /\ status = "ok" /\ mask = 1
    /\ Live(T1(caches, op.key), op.key)
    /\ Live(T2(caches, op.key), op.key)
    /\ \E k \in Keys : ShardOf(k, mask) # ShardOf(op.key, mask) /\ Live(T1(caches, k), k)

\* C18: with a budget, used_bytes is at most max_bytes when a Set or
\* SetWithExpiration of a value (of a new key, or of a key that items
\* holds) or a SetMaxBytes returns.
C18_WithinBudget ==
    [][(/\ \/ \E key \in LruKeys, value \in Vals :
                \/ LruSet(key, value)
                \/ \E expiration \in TTLs : LruSetWithExpiration(key, value, expiration)
           \/ \E max \in LruBudgets : SetMaxBytes(max)
        /\ maxBytes' > 0)
       => usedBytes' <= maxBytes']_vars

\* C18 for the Set of a new key and for SetMaxBytes.
C18_WithinBudgetAfterEvict ==
    [][(/\ \/ \E key \in LruKeys, value \in Vals, expiration \in TTLs :
                LruSetWithExpiration(key, value, expiration) /\ key \notin items
           \/ \E max \in LruBudgets : SetMaxBytes(max)
        /\ maxBytes' > 0)
       => usedBytes' <= maxBytes']_vars

\* C15: when Get(key) reports found, the value it returns is the one that
\* the most recent Set or SetWithExpiration of key wrote.
C15_NoSupersededValue ==
    [][\A key \in Keys :
         (Called("Get", key) /\ op'.found) => op'.v = latest[key]]_vars

\* The key has a live entry in tier t of the pair that expires by time T.
ExpiredBy(pair, t, key, T) == Live(pair[t], key) /\ NodeOf(pair[t], key).expireAt <= T

C20_SweepOnlyExpired ==
    [][SweepShard =>
         \A key \in Keys, t \in 1..2 :
            (/\ Live(caches[sweep.shard][t], key)
             /\ NodeOf(caches[sweep.shard][t], key).expireAt > clock)
              => /\ Live(caches'[sweep.shard][t], key)
                 /\ NodeOf(caches'[sweep.shard][t], key)
                      = NodeOf(caches[sweep.shard][t], key)]_vars

\* The shards whose mutex t holds.
Held(t) == {i \in DOMAIN locks : locks[i] = t}

\* The lock discipline of the LRU-2 store: a goroutine holds at most one
\* shard mutex, only while it is between a Lock and its Unlock, and a Get,
\* Set or Delete holds the mutex of its key's shard only.
C12_OneLockAtATime ==
    \A t \in DOMAIN pcs :
       /\ Cardinality(Held(t)) <= 1
       /\ Held(t) # {} => pcs[t].at \in {"locked", "hung"} /\ Held(t) = {pcs[t].shard}
       /\ (Held(t) # {} /\ pcs[t].call \in {"Get", "Set", "Delete"})
            => Held(t) = {ShardOf(pcs[t].key, mask)}

\* C12: no interleaving of Get, Set, Delete, Len, Clear and the cleanup pass
\* deadlocks: a goroutine that waits for a shard mutex never waits for a
\* holder that will not unlock it.
C12_NoDeadlock ==
    \A t \in DOMAIN pcs :
       (pcs[t].at = "waiting" /\ locks[pcs[t].shard] # NoHolder)
         => pcs[locks[pcs[t].shard]].at # "hung"

\* The elements of the list from e on, following next up to the root.
RECURSIVE raceChain(_, _, _)
raceChain(c, e, acc) ==
    IF e = Root \/ e = NilElem \/ Len(acc) > MaxElems THEN acc
    ELSE raceChain(c, c.next[e], Append(acc, e))

\* The recency list and the key map agree: the list holds exactly the
\* elements that the key map points to, each once, linked both ways, and
\* l.len is the number of keys.
raceConsistent(c, ch) ==
    /\ Len(ch) = Cardinality(DOMAIN c.items)
    /\ {ch[i] : i \in 1..Len(ch)} = {c.items[k] : k \in DOMAIN c.items}
    /\ \A i \in 1..Len(ch) :
          /\ c.prev[ch[i]] = (IF i = 1 THEN Root ELSE ch[i - 1])
          /\ c.next[ch[i]] = (IF i = Len(ch) THEN Root ELSE ch[i + 1])
    /\ c.prev[Root] = (IF ch = <<>> THEN Root ELSE ch[Len(ch)])
    /\ c.len = Cardinality(DOMAIN c.items)

Consistent(c) == raceConsistent(c, raceChain(c, c.next[Root], <<>>))

\* The element that the Get under way found is no longer the one of its key.
Gone ==
    /\ raceGetting # NoElem
    /\ \/ raceGetting.key \notin DOMAIN raceCache.items
       \/ raceCache.items[raceGetting.key] # raceGetting.elem

\* C11: when the entry that Get found under the read lock was removed before
\* Get took the write lock (also when the key was set again since), the bump
\* does not panic and leaves the recency list and the key map consistent.
C11_BumpAfterRemoval ==
    [][(RaceGetMove /\ Gone /\ Consistent(raceCache))
         => (raceStatus' = "ok" /\ Consistent(raceCache'))]_vars

\* The same when the key has not been set again since the removal.
C11_BumpAfterRemovalNoSet ==
    [][(RaceGetMove /\ Gone /\ raceGetting.key \notin DOMAIN raceCache.items
          /\ Consistent(raceCache))
         => (raceStatus' = "ok" /\ Consistent(raceCache'))]_vars

\* C21: the Delete(key) that Get started on finding key expired does not
\* remove an entry written since: when the last call was a Set of key that
\* completed after that Get and its entry has not expired, the entry is
\* still there after the goroutine has run.
C21_AsyncDeleteSpares ==
    [][\A key \in LruKeys :
         (/\ goDelete(key)
          /\ lruOp.op = "Set" /\ lruOp.key = key /\ lruOp.v # 0
          /\ key \in items /\ ~hasExpired(expires, key, wall))
           => key \in items']_vars

\* After Close has returned, cleanupLoop of the LRU-2 store begins no pass.
C22_NoNewPass == [][~ticking => ~SweepStart]_vars

\* After Close has returned, cleanupLoop of the single-tier cache makes no
\* pass.
C22_NoNewPassLRU == [][closeCh = "closed" => ~cleanupLoop]_vars

\* C22: after Close has returned no cleanup pass begins, and the cleanup (a
\* pass in flight that finishes) invokes the callback for no entry that
\* expires after Close: an entry whose expireAt is later than the clock is
\* still live after a pass that runs once the ticker is stopped.
C22_QuietAfterClose ==
    [][~ticking =>
         /\ ~SweepStart
         /\ SweepShard =>
              \A key \in Keys, t \in 1..2 :
                 (/\ Live(caches[sweep.shard][t], key)
                  /\ NodeOf(caches[sweep.shard][t], key).expireAt > clock)
                   => Live(caches'[sweep.shard][t], key)]_vars

\* The powers of two up to 2^16, and the least of them that is at least x.
PowersOfTwo == {2^k : k \in 0..16}
nextPowerOfTwo(x) ==
    CHOOSE q \in PowersOfTwo : q >= x /\ \A r \in PowersOfTwo : r >= x => q <= r

\* The int32 hash of these bytes is negative.
NegativeHash(bytes) == hashFrom(bytes, 1, <<0, 0>>)[1] >= 32768

\* The store built has the shards that the BucketCount calls for, and the
\* index of the key looked up is one of them.
RightShards ==
    /\ router.count = nextPowerOfTwo(IF router.bc = 0 THEN 16 ELSE router.bc)
    /\ router.count >= 1
    /\ router.count = router.mask + 1
    /\ router.idx # -1 => router.idx \in 0..(router.count - 1)

\* C23: for every 16-bit BucketCount, newLRU2Cache makes exactly
\* next_power_of_two(BucketCount) shards (BucketCount itself when it is a
\* power of two, 16 when it is 0, at least 1 always, with no overflow of
\* mask+1), and the shard index hash(key) & mask of every key lies in
\* 0..shardCount-1, also when the hash is negative.
C23_ShardCount == router.built => RightShards

\* C23, for the BucketCounts up to 32768 only.
C23_ShardCountTo32768 == (router.built /\ router.bc <= 32768) => RightShards

\* C23: a key whose hash is negative has been looked up in a store of more
\* than one shard.
C23_NegativeLookup ==
    /\ router.built /\ router.count > 1
    /\ router.idx # -1 /\ NegativeHash(router.bytes)

\* Two 100ms ticks, taken for "about 100ms".
C24_Limit == 2 * sleepStep

\* C24: while the clock goroutine runs on schedule, the value that Now()
\* returns is never ahead of the true time and never more than about 100ms
\* behind it (two 100ms ticks are allowed here), at every tick of the
\* one-second cycle.
C24_NowCloseToTrueTime == clockNs <= trueNs /\ trueNs - clockNs <= C24_Limit

\* C24: Now() is never ahead of the true time.
C24_NowNotAhead == clockNs <= trueNs /\ nowRead <= trueNs

\* C24: Now() is at most 100ms behind the true time up to the first tick
\* after each sample.
C24_FreshAfterSample ==
    (clockPc # "store" /\ slept = 0) => trueNs - clockNs <= sleepStep

====
